---- MODULE Spec2Model ----
(***************************************************************************)
(* Post-extraction reconciliation pipeline of InvoiceHelper (helper.py).   *)
(*                                                                         *)
(* Python values are modelled as records [t, n, d, s]:                     *)
(*   t = "null"  None                                                      *)
(*   t = "num"   an int or float, held as the exact rational n/d (d > 0,   *)
(*               lowest terms); round() is round-half-even on that value   *)
(*   t = "str"   a str, held as the sequence s of its characters           *)
(*   t = "list"  the Line_Items list (its elements are in `items`)         *)
(*   t = "absent" the result of looking up a key the dict does not hold    *)
(* A dict is the sequence of its <<key, value>> pairs in insertion order.  *)
(***************************************************************************)
EXTENDS Integers, Sequences, FiniteSets

VARIABLES data, items, pc, prev, input

vars == <<data, items, pc, prev, input>>

----------------------------------------------------------------------------
(* Values *)

None == [t |-> "null", n |-> 0, d |-> 1, s |-> <<>>]
Absent == [t |-> "absent", n |-> 0, d |-> 1, s |-> <<>>]
ListVal == [t |-> "list", n |-> 0, d |-> 1, s |-> <<>>]
Str(chars) == [t |-> "str", n |-> 0, d |-> 1, s |-> chars]

Abs(x) == IF x < 0 THEN -x ELSE x

RECURSIVE GCD(_, _)
GCD(a, b) == IF b = 0 THEN a ELSE GCD(b, a % b)

\* the rational n/d in lowest terms with a positive denominator
Rat(n, d) ==
    LET sn == IF d < 0 THEN -n ELSE n
        sd == Abs(d)
        g == GCD(Abs(sn), sd)
    IN [t |-> "num", n |-> sn \div g, d |-> sd \div g, s |-> <<>>]

Num(k) == Rat(k, 1)
Zero == Num(0)

IsNum(v) == v.t = "num"
IsStr(v) == v.t = "str"
\* Python's `x is None`; dict.get(k) of a missing key is None as well
IsNone(v) == v.t \in {"null", "absent"}

\* the least common denominator keeps the numerators small
LCD(a, b) == (a.d \div GCD(a.d, b.d)) * b.d
Scaled(a, l) == a.n * (l \div a.d)
RAdd(a, b) == LET l == LCD(a, b) IN Rat(Scaled(a, l) + Scaled(b, l), l)
RSub(a, b) == LET l == LCD(a, b) IN Rat(Scaled(a, l) - Scaled(b, l), l)
RMul(a, b) ==
    LET g1 == GCD(Abs(a.n), b.d)
        g2 == GCD(Abs(b.n), a.d)
        h1 == IF g1 = 0 THEN 1 ELSE g1
        h2 == IF g2 = 0 THEN 1 ELSE g2
    IN Rat((a.n \div h1) * (b.n \div h2), (a.d \div h2) * (b.d \div h1))
\* b # 0
RDiv(a, b) == RMul(a, Rat(b.d, b.n))
RLt(a, b) == LET l == LCD(a, b) IN Scaled(a, l) < Scaled(b, l)
RGt(a, b) == RLt(b, a)
REq(a, b) == a.n = b.n /\ a.d = b.d
RIsZero(a) == a.n = 0
RPos(a) == a.n > 0
RIsInt(a) == a.d = 1

Pow10(k) == IF k = 2 THEN 100 ELSE IF k = 4 THEN 10000 ELSE 1

\* round(x, k): nearest multiple of 10^-k, ties to the even neighbour
Round(x, k) ==
    LET p == Pow10(k)
        whole == x.n \div x.d
        rem == x.n % x.d
        fq == (rem * p) \div x.d
        fr == (rem * p) % x.d
        low == whole * p + fq
        up == IF 2 * fr > x.d THEN 1
              ELSE IF 2 * fr < x.d THEN 0
              ELSE low % 2
    IN Rat(low + up, p)

RECURSIVE RSum(_)
RSum(seq) == IF seq = <<>> THEN Zero ELSE RAdd(Head(seq), RSum(Tail(seq)))

----------------------------------------------------------------------------
(* Strings: sequences of one-character strings *)

Digits == {"0", "1", "2", "3", "4", "5", "6", "7", "8", "9"}

DigitVal(c) ==
    CASE c = "0" -> 0 [] c = "1" -> 1 [] c = "2" -> 2 [] c = "3" -> 3
      [] c = "4" -> 4 [] c = "5" -> 5 [] c = "6" -> 6 [] c = "7" -> 7
      [] c = "8" -> 8 [] c = "9" -> 9 [] OTHER -> 0

\* `c in s` for a one-character c
Contains(s, c) == \E i \in 1..Len(s) : s[i] = c

\* s.replace(c, '')
Remove(s, c) == SelectSeq(s, LAMBDA x : x # c)

RECURSIVE LStrip(_, _)
LStrip(s, cs) ==
    IF s # <<>> /\ Head(s) \in cs THEN LStrip(Tail(s), cs) ELSE s

RECURSIVE RStrip(_, _)
RStrip(s, cs) ==
    IF s # <<>> /\ s[Len(s)] \in cs THEN RStrip(SubSeq(s, 1, Len(s) - 1), cs)
    ELSE s

\* s.strip(chars)
StripChars(s, cs) == RStrip(LStrip(s, cs), cs)

WhiteSpace == {" ", "\n"}

\* s.strip()
Strip(s) == StripChars(s, WhiteSpace)

LowerChar(c) ==
    CASE c = "A" -> "a" [] c = "B" -> "b" [] c = "C" -> "c" [] c = "D" -> "d"
      [] c = "E" -> "e" [] c = "F" -> "f" [] c = "G" -> "g" [] c = "H" -> "h"
      [] c = "I" -> "i" [] c = "J" -> "j" [] c = "K" -> "k" [] c = "L" -> "l"
      [] c = "M" -> "m" [] c = "N" -> "n" [] c = "O" -> "o" [] c = "P" -> "p"
      [] c = "Q" -> "q" [] c = "R" -> "r" [] c = "S" -> "s" [] c = "T" -> "t"
      [] c = "U" -> "u" [] c = "V" -> "v" [] c = "W" -> "w" [] c = "X" -> "x"
      [] c = "Y" -> "y" [] c = "Z" -> "z" [] OTHER -> c

\* s.lower() / s.casefold() over the model's alphabet
Lower(s) == [i \in 1..Len(s) |-> LowerChar(s[i])]

UpperChar(c) ==
    CASE c = "a" -> "A" [] c = "b" -> "B" [] c = "c" -> "C" [] c = "d" -> "D"
      [] c = "e" -> "E" [] c = "f" -> "F" [] c = "g" -> "G" [] c = "h" -> "H"
      [] c = "i" -> "I" [] c = "j" -> "J" [] c = "k" -> "K" [] c = "l" -> "L"
      [] c = "m" -> "M" [] c = "n" -> "N" [] c = "o" -> "O" [] c = "p" -> "P"
      [] c = "q" -> "Q" [] c = "r" -> "R" [] c = "s" -> "S" [] c = "t" -> "T"
      [] c = "u" -> "U" [] c = "v" -> "V" [] c = "w" -> "W" [] c = "x" -> "X"
      [] c = "y" -> "Y" [] c = "z" -> "Z" [] OTHER -> c

Upper(s) == [i \in 1..Len(s) |-> UpperChar(s[i])]

\* `sub in s` for a substring sub
HasSubstr(s, sub) ==
    \E i \in 1..(Len(s) - Len(sub) + 1) : SubSeq(s, i, i + Len(sub) - 1) = sub

AllDigits(s) == \A i \in 1..Len(s) : s[i] \in Digits

RECURSIVE DigitsVal(_)
DigitsVal(s) ==
    IF s = <<>> THEN 0 ELSE DigitsVal(SubSeq(s, 1, Len(s) - 1)) * 10 + DigitVal(s[Len(s)])

RECURSIVE Pow10N(_)
Pow10N(k) == IF k = 0 THEN 1 ELSE 10 * Pow10N(k - 1)

\* float(s) for a str: surrounding whitespace is dropped, then an optional
\* sign, then digits with at most one '.', at least one digit in all.
\* Anything else is a ValueError (ok = FALSE).
\* the outcome of an expression that can raise: ok = FALSE when it raised
Fail == [ok |-> FALSE, v |-> Zero]
Ok(x) == [ok |-> TRUE, v |-> x]

\* the index of the first '.', or one past the end
DotIndex(body) ==
    IF Contains(body, ".")
    THEN CHOOSE i \in 1..Len(body) : body[i] = "." /\ \A j \in 1..(i - 1) : body[j] # "."
    ELSE Len(body) + 1

ParseDigits(sign, ip, fp) ==
    IF AllDigits(ip) /\ AllDigits(fp) /\ Len(ip) + Len(fp) >= 1
    THEN Ok(Rat(sign * (DigitsVal(ip) * Pow10N(Len(fp)) + DigitsVal(fp)), Pow10N(Len(fp))))
    ELSE Fail

ParseUnsigned(sign, body) ==
    ParseDigits(sign, SubSeq(body, 1, DotIndex(body) - 1),
                SubSeq(body, DotIndex(body) + 1, Len(body)))

ParseSigned(t) ==
    ParseUnsigned(IF t # <<>> /\ Head(t) = "-" THEN -1 ELSE 1,
                  IF t # <<>> /\ Head(t) \in {"-", "+"} THEN Tail(t) ELSE t)

\* float(s) for a str: surrounding whitespace is dropped, then an optional
\* sign, then digits with at most one '.', at least one digit in all.
\* Anything else is a ValueError (ok = FALSE).
ParseFloat(s) == ParseSigned(Strip(s))

\* float(x) for any value: a number converts, a str is parsed, None is a
\* TypeError
ToFloat(x) ==
    IF IsNum(x) THEN Ok(x)
    ELSE IF IsStr(x) THEN ParseFloat(x.s)
    ELSE Fail

----------------------------------------------------------------------------
(* Dicts: sequences of <<key, value>> in insertion order *)

Has(dct, k) == \E i \in 1..Len(dct) : dct[i][1] = k
KeyIdx(dct, k) == CHOOSE i \in 1..Len(dct) : dct[i][1] = k
\* dct.get(k, dflt)
GetOr(dct, k, dflt) == IF Has(dct, k) THEN dct[KeyIdx(dct, k)][2] ELSE dflt
\* dct.get(k)
Get(dct, k) == GetOr(dct, k, Absent)
\* dct[k] = v
Put(dct, k, v) ==
    IF Has(dct, k) THEN [dct EXCEPT ![KeyIdx(dct, k)] = <<k, v>>]
    ELSE Append(dct, <<k, v>>)
\* dct.pop(k, None)
Pop(dct, k) == SelectSeq(dct, LAMBDA p : p[1] # k)
\* the assignments dct[k] = v for the <<k, v>> of pairs, in their order
RECURSIVE PutAll(_, _)
PutAll(dct, pairs) ==
    IF pairs = <<>> THEN dct
    ELSE PutAll(Put(dct, Head(pairs)[1], Head(pairs)[2]), Tail(pairs))
Keys(dct) == {dct[i][1] : i \in 1..Len(dct)}

----------------------------------------------------------------------------
(* Literals of the source *)

PNM_NAME == <<"p", "n", "m", " ", "s", "y", "d", "n", "e", "y", " ", "p", "t", "y", " ", "l", "t", "d">>
EA == <<"E", "A">>
GST == <<"G", "S", "T">>
NO_GST == <<"N", "O", " ", "G", "S", "T">>

\* What `for item in data.get("Line_Items", [])` iterates over:
\*   "list"  the elements of the list (in `items`)
\*   "empty" nothing (key absent, or an empty str)
\*   "chars" the characters of a non-empty str (each item is a str)
\*   "error" None or a number is not iterable: TypeError
IterKind(dt) ==
    IF ~Has(dt, "Line_Items") THEN "empty"
    ELSE CASE Get(dt, "Line_Items").t = "list" -> "list"
           [] Get(dt, "Line_Items").t = "str" ->
                IF Get(dt, "Line_Items").s = <<>> THEN "empty" ELSE "chars"
           [] OTHER -> "error"

\* data.get("supplier_name", "").strip().lower(): a str method on whatever
\* the key holds; None or a number raises AttributeError
SupplierLower(dt) ==
    IF ~Has(dt, "supplier_name") THEN [ok |-> TRUE, s |-> <<>>]
    ELSE IF IsStr(Get(dt, "supplier_name"))
    THEN [ok |-> TRUE, s |-> Lower(Strip(Get(dt, "supplier_name").s))]
    ELSE [ok |-> FALSE, s |-> <<>>]

----------------------------------------------------------------------------
(* calculate_missing_fields *)

\* lines 112-123: excl with '$' and ',' handling, then float() or 0 for None
CoerceExcl(raw) ==
    IF IsStr(raw) /\ Contains(raw.s, "$")
    THEN ParseFloat(StripChars(raw.s, {"$"}))
    ELSE IF IsStr(raw) /\ Contains(raw.s, ",")
    THEN ParseFloat(Remove(raw.s, ","))
    ELSE IF IsNone(raw) THEN Ok(Zero)
    ELSE ToFloat(raw)

\* lines 124-125: float(x) if x is not None else dflt
CoerceOr(raw, dflt) == IF IsNone(raw) THEN Ok(dflt) ELSE ToFloat(raw)

\* lines 131-148: the value of the price/quantity field
PriceQuantityRatio(numerator, denominator) ==
    IF numerator.ok /\ denominator.ok /\ ~RIsZero(denominator.v)
    THEN Ok(RDiv(numerator.v, denominator.v))
    ELSE Fail

\* the index of the only '/', or 0 when there is none or several
SlashIndex(s) ==
    IF Cardinality({i \in 1..Len(s) : s[i] = "/"}) = 1
    THEN CHOOSE i \in 1..Len(s) : s[i] = "/"
    ELSE 0

PriceQuantityCleaned(cleaned) ==
    IF SlashIndex(cleaned) # 0
    THEN PriceQuantityRatio(
             ParseFloat(SubSeq(cleaned, 1, SlashIndex(cleaned) - 1)),
             ParseFloat(SubSeq(cleaned, SlashIndex(cleaned) + 1, Len(cleaned))))
    ELSE ParseFloat(cleaned)

PriceQuantityValue(pq) ==
    IF IsStr(pq) THEN PriceQuantityCleaned(Remove(Remove(pq.s, "$"), " "))
    ELSE ToFloat(pq)

\* lines 156-157: excl * tax_pct / 100
TaxPercent(excl, tax_pct) ==
    IF tax_pct.ok THEN Ok(RDiv(RMul(excl, tax_pct.v), Num(100))) ELSE Fail

\* a plain string taken as the literal amount, whole number or not
TaxPlain_Literal(tax, excl, tax_value) == tax_value

\* lines 162-175: a str without '%' and '$'
TaxPlain(tax, excl, tax_value) ==
    IF ~tax_value.ok THEN Fail
    ELSE IF Contains(tax.s, ".") THEN tax_value
    ELSE IF RIsInt(tax_value.v) THEN Ok(RMul(excl, RDiv(tax_value.v, Num(100))))
    ELSE tax_value

\* a variant that takes a numeric line_total_tax as the tax amount
TaxAmount_UsesNumber(tax, excl, incl) ==
    IF IsStr(tax) /\ Contains(tax.s, "%")
    THEN TaxPercent(excl, ParseFloat(StripChars(tax.s, {"%"})))
    ELSE IF IsStr(tax) /\ Contains(tax.s, "$")
    THEN ParseFloat(StripChars(tax.s, {"$"}))
    ELSE IF IsStr(tax) THEN TaxPlain(tax, excl, ParseFloat(tax.s))
    ELSE IF IsNum(tax) THEN Ok(tax)
    ELSE IF RPos(incl) /\ RPos(excl) THEN Ok(RSub(incl, excl))
    ELSE Ok(Zero)

\* lines 153-181: the tax amount before rounding
TaxAmount(tax, excl, incl) ==
    IF IsStr(tax) /\ Contains(tax.s, "%")
    THEN TaxPercent(excl, ParseFloat(StripChars(tax.s, {"%"})))
    ELSE IF IsStr(tax) /\ Contains(tax.s, "$")
    THEN ParseFloat(StripChars(tax.s, {"$"}))
    ELSE IF IsStr(tax) THEN TaxPlain(tax, excl, ParseFloat(tax.s))
    ELSE IF RPos(incl) /\ RPos(excl) THEN Ok(RSub(incl, excl))
    ELSE Ok(Zero)

\* lines 186-198: excl after the completion branches
CompleteExcl(excl, incl, tax_amt) ==
    IF RPos(incl) /\ RIsZero(tax_amt) THEN incl
    ELSE IF RPos(excl) /\ RIsZero(incl) THEN excl
    ELSE IF RPos(incl) /\ RIsZero(excl) THEN Round(RSub(incl, tax_amt), 4)
    ELSE excl

\* lines 186-198: incl after the completion branches
CompleteIncl(excl, incl, tax_amt) ==
    IF RPos(incl) /\ RIsZero(tax_amt) THEN incl
    ELSE IF RPos(excl) /\ RIsZero(incl) THEN Round(RAdd(excl, tax_amt), 4)
    ELSE IF RPos(incl) /\ RIsZero(excl) THEN incl
    ELSE IF RPos(excl) /\ RPos(incl) THEN Round(RAdd(excl, tax_amt), 4)
    ELSE incl

\* lines 201-202: round(total / qty, 4) if qty != 0 else 0
UnitPrice(total, qty) == IF ~RIsZero(qty) THEN Round(RDiv(total, qty), 4) ELSE Zero

\* lines 206-207
DefaultOrderUnit(item) ==
    IF IsNone(Get(item, "order_unit")) \/ Get(item, "order_unit") = Str(<<>>)
    THEN Put(item, "order_unit", Str(EA))
    ELSE item

\* lines 203-217: the writes to the item
WriteUnits(item, excl, incl, tax_amt, unit_excl, unit_tax) ==
    PutAll(DefaultOrderUnit(item),
           << <<"line_total_excl", excl>>,
              <<"line_total_tax", tax_amt>>,
              <<"line_total_incl", incl>>,
              <<"order_unit_price_excl", unit_excl>>,
              <<"order_unit_tax", unit_tax>>,
              <<"order_unit_price_incl", Round(RAdd(unit_excl, unit_tax), 4)>>,
              <<"gst_indicator", IF RPos(unit_tax) THEN Str(GST) ELSE Str(NO_GST)>> >>)

\* lines 200-217: unit fields and the writes to the item
WriteItem(item, excl, incl, tax_amt, qty) ==
    WriteUnits(item, excl, incl, tax_amt, UnitPrice(excl, qty), UnitPrice(tax_amt, qty))

\* lines 186-217, with tax_amt as rounded on line 184
Completed(item, excl, incl, qty, tax_amt) ==
    [ok |-> TRUE,
     item |-> WriteItem(item, CompleteExcl(excl, incl, tax_amt),
                        CompleteIncl(excl, incl, tax_amt), tax_amt, qty)]

\* lines 153-217, with the outcome of the tax branches
Taxed(item, excl, incl, qty, raw_tax) ==
    IF ~raw_tax.ok THEN [ok |-> FALSE, item |-> item]
    ELSE Completed(item, excl, incl, qty, Round(raw_tax.v, 4))

\* lines 150-217: the quantity is written to the item before the tax is read
WithQuantity(item, excl, incl, qty) ==
    Taxed(Put(item, "order_quantity", qty), excl, incl, qty,
          TaxAmount(Get(item, "line_total_tax"), excl, incl))

\* lines 130-217, with the outcome of the price/quantity conversion
Reinterpreted(item, excl, incl, qty, price_quantity_value) ==
    IF ~price_quantity_value.ok THEN [ok |-> FALSE, item |-> item]
    ELSE WithQuantity(item, excl, incl, RDiv(RMul(qty, price_quantity_value.v), excl))

\* lines 127-217, with the outcomes of the float() conversions
Coerced(dt, item, excl, incl, qty) ==
    IF ~excl.ok \/ ~incl.ok \/ ~qty.ok \/ ~SupplierLower(dt).ok
    THEN [ok |-> FALSE, item |-> item]
    ELSE IF /\ SupplierLower(dt).s = PNM_NAME
            /\ ~IsNone(Get(item, "price/quantity"))
            /\ ~RIsZero(excl.v)
    THEN Reinterpreted(item, excl.v, incl.v, qty.v,
                       PriceQuantityValue(Get(item, "price/quantity")))
    ELSE Taxed(item, excl.v, incl.v, qty.v,
               TaxAmount(Get(item, "line_total_tax"), excl.v, incl.v))

\* lines 102-221: the body of the loop for one item. ok = FALSE when an
\* exception reached the except clause; item is the item as it is left.
ProcessItem(dt, item) ==
    Coerced(dt, item,
            CoerceExcl(Get(item, "line_total_excl")),
            CoerceOr(Get(item, "line_total_incl"), Zero),
            CoerceOr(Get(item, "order_quantity"), Num(1)))

\* a loop without the try: the first exception ends it and the later items
\* stay as they were
RECURSIVE CalcLoop_StopsAtException(_, _)
CalcLoop_StopsAtException(dt, its) ==
    IF its = <<>> THEN <<>>
    ELSE IF ~ProcessItem(dt, Head(its)).ok THEN its
    ELSE <<ProcessItem(dt, Head(its)).item>> \o CalcLoop_StopsAtException(dt, Tail(its))

\* lines 101-221: the for loop with its try/except. An exception in one
\* item is logged and the loop goes on with the next item.
RECURSIVE CalcLoop(_, _)
CalcLoop(dt, its) ==
    IF its = <<>> THEN <<>>
    ELSE <<ProcessItem(dt, Head(its)).item>> \o CalcLoop(dt, Tail(its))

\* the whole function; result [ok, data, items]
calculate_missing_fields(dt, its) ==
    IF IterKind(dt) = "error" THEN [ok |-> FALSE, data |-> dt, items |-> its]
    ELSE IF IterKind(dt) = "list" THEN [ok |-> TRUE, data |-> dt, items |-> CalcLoop(dt, its)]
    ELSE [ok |-> TRUE, data |-> dt, items |-> its]

----------------------------------------------------------------------------
(* extract_pack_details: the pattern list and re.search *)

Letters ==
    {"A", "B", "C", "D", "E", "F", "G", "H", "I", "J", "K", "L", "M", "N", "O",
     "P", "Q", "R", "S", "T", "U", "V", "W", "X", "Y", "Z"}

\* regex elements; g is the capture group the element fills (0: none)
ReInt(g) == [k |-> "int", g |-> g, alts |-> <<>>]
ReDec(g) == [k |-> "dec", g |-> g, alts |-> <<>>]
ReAlt(g, alts) == [k |-> "alt", g |-> g, alts |-> alts]
ReAlpha(g) == [k |-> "alpha", g |-> g, alts |-> <<>>]
ReWs == [k |-> "ws", g |-> 0, alts |-> <<>>]
ReBol == [k |-> "bol", g |-> 0, alts |-> <<>>]
ReWb == [k |-> "wb", g |-> 0, alts |-> <<>>]
ReX == ReAlt(0, << <<"X">> >>)

\* lines 228-252, in list order. Patterns are matched against the
\* upper-cased name (re.IGNORECASE).
pack_patterns ==
    << [type |-> "gm_raw_pattern",
        re |-> <<ReInt(1), ReX, ReDec(2), ReAlt(3, << <<"G", "M">> >>)>>],
       [type |-> "qtyxsize_unit",
        re |-> <<ReInt(1), ReX, ReDec(2),
                 ReAlt(3, << <<"K", "G">>, <<"G">>, <<"L">>, <<"M", "L">>,
                             <<"P", "C">>, <<"E", "A">> >>)>>],
       [type |-> "spaced_qtyxsize_unit",
        re |-> <<ReInt(1), ReWs, ReX, ReWs, ReDec(2), ReAlpha(3)>>],
       [type |-> "pk_pattern",
        re |-> <<ReDec(1), ReAlt(2, << <<"P", "K">> >>), ReX, ReInt(3)>>],
       [type |-> "kg_pattern",
        re |-> <<ReDec(1), ReAlt(2, << <<"K">>, <<"K", "G">> >>), ReX, ReInt(3)>>],
       [type |-> "g_pattern",
        re |-> <<ReDec(1), ReAlt(2, << <<"G">> >>), ReX, ReInt(3)>>],
       [type |-> "ml_pattern",
        re |-> <<ReDec(1), ReAlt(2, << <<"M", "L">> >>), ReX, ReInt(3)>>],
       [type |-> "l_pattern",
        re |-> <<ReDec(1), ReAlt(2, << <<"L">> >>), ReX, ReInt(3)>>],
       [type |-> "ml_pack_bottle_pattern",
        re |-> <<ReInt(1), ReWs,
                 ReAlt(2, << <<"P", "E", "T">>, <<"F", "L", "O">>, <<"N", "R", "B">> >>),
                 ReWs, ReX, ReInt(3)>>],
       [type |-> "kg_single",
        re |-> <<ReDec(1), ReAlt(2, << <<"K">>, <<"K", "G">> >>)>>],
       [type |-> "g_single", re |-> <<ReDec(1), ReAlt(2, << <<"G">> >>)>>],
       [type |-> "ml_single", re |-> <<ReDec(1), ReAlt(2, << <<"M", "L">> >>)>>],
       [type |-> "l_single", re |-> <<ReDec(1), ReAlt(2, << <<"L">> >>)>>],
       [type |-> "count_pattern", re |-> <<ReInt(1), ReX, ReInt(2)>>],
       [type |-> "numeric_quantity_prefix", re |-> <<ReBol, ReInt(1), ReWb>>],
       [type |-> "pk_only_pattern", re |-> <<ReInt(1), ReAlt(2, << <<"P", "K">> >>)>>] >>

NoCaps == <<<<>>, <<>>, <<>>>>
NoMatch == [ok |-> FALSE, caps |-> NoCaps]
SetCap(caps, g, txt) == IF g = 0 THEN caps ELSE [caps EXCEPT ![g] = txt]

\* index of the last character of the longest run of characters of cs that
\* starts at pos, and pos - 1 when there is none
RECURSIVE RunEnd(_, _, _)
RunEnd(s, pos, cs) ==
    IF pos <= Len(s) /\ s[pos] \in cs THEN RunEnd(s, pos + 1, cs) ELSE pos - 1

\* \d+(?:\.\d+)? at pos: end of the integer part, extended over a '.' that
\* is followed by a digit
DecEnd(s, pos) ==
    IF /\ RunEnd(s, pos, Digits) >= pos
       /\ RunEnd(s, pos, Digits) + 1 <= Len(s)
       /\ s[RunEnd(s, pos, Digits) + 1] = "."
       /\ RunEnd(s, RunEnd(s, pos, Digits) + 2, Digits) >= RunEnd(s, pos, Digits) + 2
    THEN RunEnd(s, RunEnd(s, pos, Digits) + 2, Digits)
    ELSE RunEnd(s, pos, Digits)

IsWordAt(s, i) == i >= 1 /\ i <= Len(s) /\ s[i] \in (Digits \cup Letters \cup {"_"})

\* Matching element k of re at pos. Every digit run of the patterns is
\* followed by a letter, a space, \b or the end of the pattern, so the
\* longest run is the one the backtracking matcher settles on; alternatives
\* are tried in their written order, each with the rest of the pattern.
RECURSIVE MatchFrom(_, _, _, _, _)
RECURSIVE Consume(_, _, _, _, _, _)
RECURSIVE TryAlts(_, _, _, _, _, _)
RECURSIVE MatchLit(_, _, _, _, _, _)
RECURSIVE AltOr(_, _, _, _, _, _, _)
MatchFrom(re, k, s, pos, caps) ==
    IF k > Len(re) THEN [ok |-> TRUE, caps |-> caps]
    ELSE CASE re[k].k = "int" -> Consume(re, k, s, pos, caps, RunEnd(s, pos, Digits))
           [] re[k].k = "dec" -> Consume(re, k, s, pos, caps, DecEnd(s, pos))
           [] re[k].k = "ws" ->
                MatchFrom(re, k + 1, s, RunEnd(s, pos, WhiteSpace) + 1, caps)
           [] re[k].k = "alpha" ->
                Consume(re, k, s, pos, caps,
                        IF RunEnd(s, pos, Letters) > pos + 3 THEN pos + 3
                        ELSE RunEnd(s, pos, Letters))
           [] re[k].k = "bol" ->
                IF pos = 1 THEN MatchFrom(re, k + 1, s, pos, caps) ELSE NoMatch
           [] re[k].k = "wb" ->
                IF IsWordAt(s, pos - 1) # IsWordAt(s, pos)
                THEN MatchFrom(re, k + 1, s, pos, caps) ELSE NoMatch
           [] OTHER -> TryAlts(re, k, s, pos, caps, 1)
\* element k takes s[pos..e] (nothing when e < pos) and the rest follows
Consume(re, k, s, pos, caps, e) ==
    IF e < pos THEN NoMatch
    ELSE MatchFrom(re, k + 1, s, e + 1, SetCap(caps, re[k].g, SubSeq(s, pos, e)))
\* the literal lit at pos, then the rest of the pattern
MatchLit(re, k, s, pos, caps, lit) ==
    IF pos + Len(lit) - 1 <= Len(s) /\ SubSeq(s, pos, pos + Len(lit) - 1) = lit
    THEN MatchFrom(re, k + 1, s, pos + Len(lit), SetCap(caps, re[k].g, lit))
    ELSE NoMatch
TryAlts(re, k, s, pos, caps, a) ==
    IF a > Len(re[k].alts) THEN NoMatch
    ELSE AltOr(re, k, s, pos, caps, a, MatchLit(re, k, s, pos, caps, re[k].alts[a]))
\* the match with alternative a, or else the later alternatives
AltOr(re, k, s, pos, caps, a, rest) ==
    IF rest.ok THEN rest ELSE TryAlts(re, k, s, pos, caps, a + 1)

\* re.search(pattern, product_name, re.IGNORECASE): the match at the
\* leftmost position that has one
RECURSIVE SearchFrom(_, _, _)
RECURSIVE SearchOr(_, _, _, _)
SearchFrom(re, s, pos) ==
    IF pos > Len(s) + 1 THEN NoMatch
    ELSE SearchOr(re, s, pos, MatchFrom(re, 1, s, pos, NoCaps))
\* the match at pos, or else the search from the next position
SearchOr(re, s, pos, m) == IF m.ok THEN m ELSE SearchFrom(re, s, pos + 1)

ReSearch(re, name) == SearchFrom(re, Upper(name), 1)

KG == <<"K", "G">>
LITRE == <<"L">>

\* int(match.group(i)) and float(match.group(i))
GroupInt(m, i) == Num(DigitsVal(m.caps[i]))
GroupFloat(m, i) == ParseFloat(m.caps[i]).v

Pack(ous, ps, pu) == [order_unit_size |-> ous, pack_size |-> ps, pack_unit |-> Str(pu)]
Thousandth(x) == RDiv(x, Num(1000))

\* lines 289-301: the units of the primary pattern
QtySizeUnit(q, size, unit) ==
    IF unit = <<"G">> THEN Pack(q, Thousandth(size), KG)
    ELSE IF unit = <<"M", "L">> THEN Pack(q, Thousandth(size), LITRE)
    ELSE IF unit \in {<<"K">>, KG} THEN Pack(q, size, KG)
    ELSE IF unit = <<"L">> THEN Pack(q, size, LITRE)
    ELSE IF unit \in {<<"P", "C">>, EA} THEN Pack(q, size, EA)
    ELSE Pack(q, size, unit)

\* lines 309-327: the units of the spaced pattern
SpacedQtySizeUnit(q, size, unit_raw) ==
    IF unit_raw \in {<<"L", "T">>, <<"L", "T", "R">>, <<"L", "I", "T", "R", "E">>,
                     <<"L", "I", "T", "R", "E", "S">>}
    THEN Pack(q, size, LITRE)
    ELSE IF unit_raw \in {<<"M", "L">>, <<"M", "I", "L", "L", "I", "L", "I", "T", "R", "E">>,
                          <<"M", "I", "L", "L", "I", "L", "I", "T", "R", "E", "S">>}
    THEN Pack(q, Thousandth(size), LITRE)
    ELSE IF unit_raw \in {KG, <<"K", "G", "S">>, <<"K", "I", "L", "O", "G", "R", "A", "M">>}
    THEN Pack(q, size, KG)
    ELSE IF unit_raw \in {<<"G">>, <<"G", "M">>, <<"G", "R", "A", "M">>,
                          <<"G", "R", "A", "M", "S">>}
    THEN Pack(q, Thousandth(size), KG)
    ELSE IF unit_raw \in {<<"P", "C">>, <<"P", "C", "S">>, EA, <<"E", "A", "C", "H">>}
    THEN Pack(q, size, EA)
    ELSE Pack(q, size, unit_raw)

\* lines 334-350 and 357-373: size and unit of the legacy and single patterns
SizeUnit(q, size, unit) ==
    IF unit = <<"G">> THEN Pack(q, Thousandth(size), KG)
    ELSE IF unit = <<"M", "L">> THEN Pack(q, Thousandth(size), LITRE)
    ELSE IF unit = <<"K">> THEN Pack(q, size, KG)
    ELSE IF unit = <<"L">> THEN Pack(q, size, LITRE)
    ELSE Pack(q, size, unit)

\* lines 286-388: the pack descriptor of a match of the given pattern type
PackOf(type, m) ==
    CASE type = "qtyxsize_unit" ->
           QtySizeUnit(GroupInt(m, 1), GroupFloat(m, 2), m.caps[3])
      [] type = "gm_raw_pattern" ->
           Pack(GroupInt(m, 1), Thousandth(GroupFloat(m, 2)), KG)
      [] type = "spaced_qtyxsize_unit" ->
           SpacedQtySizeUnit(GroupInt(m, 1), GroupFloat(m, 2), m.caps[3])
      [] type = "pk_pattern" ->
           Pack(GroupInt(m, 1), GroupFloat(m, 3), EA)
      [] type \in {"kg_pattern", "g_pattern", "ml_pattern", "l_pattern"} ->
           SizeUnit(GroupInt(m, 3), GroupFloat(m, 1), m.caps[2])
      [] type = "ml_pack_bottle_pattern" ->
           Pack(GroupInt(m, 3), Thousandth(GroupFloat(m, 1)), LITRE)
      [] type \in {"kg_single", "g_single", "ml_single", "l_single"} ->
           SizeUnit(Num(1), GroupFloat(m, 1), m.caps[2])
      [] type = "count_pattern" -> Pack(GroupInt(m, 1), GroupFloat(m, 2), EA)
      [] type = "numeric_quantity_prefix" -> Pack(Num(1), Num(1), EA)
      [] OTHER -> Pack(GroupInt(m, 1), Num(1), EA)

\* line 330: int(match.group(1)) of the pk_pattern, whose first group may
\* hold a decimal point, is a ValueError
PackRaises(type, m) == type = "pk_pattern" /\ Contains(m.caps[1], ".")

\* the last pattern of the list that matches the name, instead of the first
FirstMatch_Last(name, k) ==
    IF \A j \in k..Len(pack_patterns) : ~ReSearch(pack_patterns[j].re, name).ok
    THEN [found |-> FALSE, type |-> "", m |-> NoMatch]
    ELSE [found |-> TRUE,
          type |-> pack_patterns[CHOOSE j \in k..Len(pack_patterns) :
                       /\ ReSearch(pack_patterns[j].re, name).ok
                       /\ \A i \in (j + 1)..Len(pack_patterns) :
                            ~ReSearch(pack_patterns[i].re, name).ok].type,
          m |-> ReSearch(pack_patterns[CHOOSE j \in k..Len(pack_patterns) :
                       /\ ReSearch(pack_patterns[j].re, name).ok
                       /\ \A i \in (j + 1)..Len(pack_patterns) :
                            ~ReSearch(pack_patterns[i].re, name).ok].re, name)]

\* lines 283-390: the first pattern, in list order, that matches the name
RECURSIVE FirstMatch(_, _)
RECURSIVE FirstMatchOr(_, _, _)
FirstMatch(name, k) ==
    IF k > Len(pack_patterns) THEN [found |-> FALSE, type |-> "", m |-> NoMatch]
    ELSE FirstMatchOr(name, k, ReSearch(pack_patterns[k].re, name))
\* line 284-285: `if match:` for pattern k, else the next pattern
FirstMatchOr(name, k, m) ==
    IF m.ok THEN [found |-> TRUE, type |-> pack_patterns[k].type, m |-> m]
    ELSE FirstMatch(name, k + 1)

DefaultPack == Pack(Num(1), Num(1), EA)

\* lines 392-395: the writes to the item
WritePack(item, pk) ==
    [ok |-> TRUE,
     item |-> PutAll(item, << <<"order_unit_size", pk.order_unit_size>>,
                              <<"pack_size", pk.pack_size>>,
                              <<"pack_unit", pk.pack_unit>> >>)]

\* lines 285-395, with the first matching pattern f
PackFound(item, f) ==
    IF f.found /\ PackRaises(f.type, f.m) THEN [ok |-> FALSE, item |-> item]
    ELSE IF f.found THEN WritePack(item, PackOf(f.type, f.m))
    ELSE WritePack(item, DefaultPack)

\* lines 279-395: one item of a supplier other than PNM
PackFromName(item) ==
    IF ~IsStr(GetOr(item, "product_name", Str(<<>>))) THEN [ok |-> FALSE, item |-> item]
    ELSE PackFound(item, FirstMatch(GetOr(item, "product_name", Str(<<>>)).s, 1))

\* lines 268-276: float(parts[1]) and the writes
PackOfParts(item, pack_size) ==
    IF ~pack_size.ok THEN [ok |-> FALSE, item |-> item]
    ELSE WritePack(item, [order_unit_size |-> Num(1), pack_size |-> pack_size.v,
                          pack_unit |-> Str(EA)])

\* lines 266-276, with the string as cleaned on line 264
PackOfCleaned(item, cleaned) ==
    IF SlashIndex(cleaned) # 0
    THEN PackOfParts(item, ParseFloat(SubSeq(cleaned, SlashIndex(cleaned) + 1, Len(cleaned))))
    ELSE WritePack(item, [order_unit_size |-> None, pack_size |-> None, pack_unit |-> None])

\* lines 256-276: one item of PNM SYDNEY PTY LTD
PackFromPriceQuantity(item) ==
    IF IsNone(Get(item, "price/quantity")) THEN [ok |-> TRUE, item |-> item]
    ELSE IF IsStr(Get(item, "price/quantity"))
    THEN PackOfCleaned(item, Remove(Remove(Get(item, "price/quantity").s, "$"), " "))
    ELSE WritePack(item, [order_unit_size |-> None, pack_size |-> None, pack_unit |-> None])

\* lines 254-395: the loop; there is no try, so the first exception ends it
\* with the earlier items already updated
RECURSIVE PackLoop(_, _, _)
RECURSIVE PackNext(_, _, _, _)
PackLoop(dt, its, k) ==
    IF k > Len(its) THEN [ok |-> TRUE, items |-> its]
    ELSE IF ~SupplierLower(dt).ok THEN [ok |-> FALSE, items |-> its]
    ELSE IF SupplierLower(dt).s = PNM_NAME
    THEN PackNext(dt, its, k, PackFromPriceQuantity(its[k]))
    ELSE PackNext(dt, its, k, PackFromName(its[k]))
\* item k is replaced by its update r and the loop goes on, or r raised
PackNext(dt, its, k, r) ==
    IF ~r.ok THEN [ok |-> FALSE, items |-> its]
    ELSE PackLoop(dt, [its EXCEPT ![k] = r.item], k + 1)

Looped(dt, r) == [ok |-> r.ok, data |-> dt, items |-> r.items]

extract_pack_details(dt, its) ==
    IF IterKind(dt) = "empty" THEN [ok |-> TRUE, data |-> dt, items |-> its]
    ELSE IF IterKind(dt) = "list" THEN Looped(dt, PackLoop(dt, its, 1))
    \* None or a number is not iterable; a character has no .get
    ELSE [ok |-> FALSE, data |-> dt, items |-> its]

\* a count of the top-level keys instead of the line items
add_item_count_CountsKeys(dt, its) ==
    [ok |-> TRUE, items |-> its, data |-> Put(dt, "item_count", Num(Len(dt)))]

\* lines 93-97: len() of the list or str; None or a number has no len()
add_item_count(dt, its) ==
    IF ~Has(dt, "Line_Items") THEN [ok |-> TRUE, items |-> its, data |-> Put(dt, "item_count", Num(0))]
    ELSE IF Get(dt, "Line_Items").t = "list"
    THEN [ok |-> TRUE, items |-> its, data |-> Put(dt, "item_count", Num(Len(its)))]
    ELSE IF Get(dt, "Line_Items").t = "str"
    THEN [ok |-> TRUE, items |-> its,
          data |-> Put(dt, "item_count", Num(Len(Get(dt, "Line_Items").s)))]
    ELSE [ok |-> FALSE, items |-> its, data |-> dt]

----------------------------------------------------------------------------
(* Supplier rules *)

ANCHOR_CANON == <<"A", "n", "c", "h", "o", "r", " ", "P", "a", "c", "k", "a", "g", "i", "n", "g">>
ANCHOR_KEYS ==
    { <<"t", "a", "x", " ", "i", "n", "v", "o", "i", "c", "e">>,
      <<"a", "n", "c", "h", "o", "r", " ", "p", "a", "c", "k", "a", "g", "i", "n", "g">>,
      <<"a", "n", "c", "h", "o", "r", "p", "a", "c", "k", "a", "g", "i", "n", "g", ".",
        "c", "o", "m", ".", "a", "u">> }
LCK_CANON ==
    <<"L", "i", "f", "e", "G", "r", "a", "i", "n", " ", "C", "e", "n", "t", "r", "a", "l",
      " ", "K", "i", "t", "c", "h", "e", "n">>
lck_list ==
    { <<"P", "l", "u", "m", " ", "S", "C", "H">>,
      <<"P", "l", "u", "m", "e", " ", "L", "i", "v", "e", "r", "p", "o", "o", "l">>,
      <<"L", "i", "f", "e", "g", "r", "a", "i", "n", " ", "L", "i", "v", "e", "r", "p", "o",
        "o", "l", " ", "C", "a", "f", "e">>,
      <<"L", "i", "f", "e", "G", "r", "a", "i", "n", " ", "C", "e", "n", "t", "r", "a", "l",
        " ", "P", "t", "y", " ", "L", "t", "d">>,
      <<"L", "i", "f", "e", "G", "r", "a", "i", "n", " ", "S", "u", "t", "h", "e", "r", "l",
        "a", "n", "d">> }
COCA_COLA == <<"C", "o", "c", "a", "-", "C", "o", "l", "a">>
FOOD_DAIRY == <<"F", "o", "o", "d", " ", "&", " ", "D", "a", "i", "r", "y">>
PFD == <<"P", "F", "D", " ", "F", "o", "o", "d", " ", "S", "e", "r", "v", "i", "c", "e", "s">>

\* line 594: "Coca-Cola" in supplier_name
CocaColaSelected(supplier_name) == HasSubstr(supplier_name, COCA_COLA)
\* line 598: the elif, "Food & Dairy" in supplier_name
FoodDairySelected(supplier_name) ==
    ~CocaColaSelected(supplier_name) /\ HasSubstr(supplier_name, FOOD_DAIRY)
\* line 621: "PFD Food Services" in supplier_name
PfdSelected(supplier_name) == HasSubstr(supplier_name, PFD)

\* lines 510-517: the writes to the item
AnchorUnits(item, order_quantity, line_total_tax, line_total_incl, order_unit_tax, order_unit_price_excl) ==
    PutAll(item, << <<"line_total_tax", line_total_tax>>,
                    <<"line_total_incl", line_total_incl>>,
                    <<"order_quantity", order_quantity>>,
                    <<"order_unit", Str(EA)>>,
                    <<"order_unit_price_excl", order_unit_price_excl>>,
                    <<"order_unit_tax", order_unit_tax>>,
                    <<"order_unit_price_incl",
                      Round(RAdd(order_unit_price_excl, order_unit_tax), 4)>>,
                    <<"gst_indicator", Str(GST)>> >>)

\* lines 503-517, with the tax of line 502
AnchorTaxed(item, line_total_excl, order_quantity, line_total_tax) ==
    AnchorUnits(item, order_quantity, line_total_tax,
                Round(RAdd(line_total_excl, line_total_tax), 2),
                Round(RDiv(line_total_tax, order_quantity), 4),
                Round(RDiv(line_total_excl, order_quantity), 4))

\* lines 502-518, with the outcomes of the float() conversions; a failed
\* conversion and the division by 0 land in the except clause
AnchorCoerced(item, line_total_excl, order_quantity) ==
    IF ~line_total_excl.ok \/ ~order_quantity.ok \/ RIsZero(order_quantity.v)
    THEN item
    ELSE AnchorTaxed(item, line_total_excl.v, order_quantity.v,
                     Round(RDiv(line_total_excl.v, Num(10)), 2))

\* lines 496-518: one item of the Anchor Packaging rule, with its try/except
AnchorItem(item) ==
    AnchorCoerced(item, ToFloat(GetOr(item, "line_total_excl", Num(0))),
                  ToFloat(GetOr(item, "order_quantity", Num(1))))

\* lines 491-521
recalculate_anchor_packaging_gst(dt, its) ==
    IF IterKind(dt) = "error"
    THEN [ok |-> FALSE, data |-> Put(dt, "supplier_name", Str(ANCHOR_CANON)), items |-> its]
    ELSE [ok |-> TRUE, data |-> Put(dt, "supplier_name", Str(ANCHOR_CANON)),
          items |-> [k \in 1..Len(its) |-> AnchorItem(its[k])]]

\* sum(float(item.get(key, 0)) for item in line_items); ok = FALSE when a
\* float() raises
RECURSIVE SumField(_, _)
RECURSIVE SumWith(_, _)
SumField(its, key) ==
    IF its = <<>> THEN Ok(Zero)
    ELSE SumWith(ToFloat(GetOr(Head(its), key, Num(0))), SumField(Tail(its), key))
SumWith(h, t) == IF h.ok /\ t.ok THEN Ok(RAdd(h.v, t.v)) ELSE Fail

\* the iteration of the generator expressions over Line_Items
SumLines(dt, its, key) ==
    IF IterKind(dt) = "empty" THEN Ok(Zero)
    ELSE IF IterKind(dt) = "list" THEN SumField(its, key)
    ELSE Fail

\* the comparison inverted: the published value stays when it differs
Keep_PublishedWhenDifferent(published, new) == IF REq(published, new) THEN new ELSE published

\* lines 545-559: the value kept for one published total
Keep(published, new) == IF REq(published, new) THEN published ELSE new

\* lines 525-559, with the outcomes of the sums and of the float() conversions
Reconciled(dt, its, new_subtotal_excl, new_gst_total, new_total_incl, published_subtotal_excl, published_gst_total, published_total_incl) ==
    IF ~new_subtotal_excl.ok \/ ~new_gst_total.ok \/ ~new_total_incl.ok
       \/ ~published_subtotal_excl.ok \/ ~published_gst_total.ok \/ ~published_total_incl.ok
    THEN [ok |-> FALSE, data |-> dt, items |-> its]
    ELSE [ok |-> TRUE, items |-> its,
          data |-> PutAll(dt,
              << <<"published_subtotal_excl",
                   Keep(Round(published_subtotal_excl.v, 2), Round(new_subtotal_excl.v, 2))>>,
                 <<"published_gst_total",
                   Keep(Round(published_gst_total.v, 2), Round(new_gst_total.v, 2))>>,
                 <<"published_total_incl",
                   Keep(Round(published_total_incl.v, 2), Round(new_total_incl.v, 2))>> >>)]

\* lines 523-561
reconcile_published_totals(dt, its) ==
    Reconciled(dt, its,
               SumLines(dt, its, "line_total_excl"),
               SumLines(dt, its, "line_total_tax"),
               SumLines(dt, its, "line_total_incl"),
               ToFloat(GetOr(dt, "published_subtotal_excl", Num(0))),
               ToFloat(GetOr(dt, "published_gst_total", Num(0))),
               ToFloat(GetOr(dt, "published_total_incl", Num(0))))

\* a Coca-Cola rule that fills the subtotal in only when it is zero
Adjusted_BackfillOnly(dt, its, published_total, published_gst, published_subtotal, supplier_name) ==
    IF CocaColaSelected(supplier_name.s) /\ RIsZero(published_subtotal.v)
    THEN [ok |-> TRUE, items |-> its,
          data |-> Put(dt, "published_subtotal_excl",
                       Round(RSub(published_total.v, published_gst.v), 2))]
    ELSE [ok |-> TRUE, data |-> dt, items |-> its]

\* lines 594-603, with the values read on lines 589-592
Adjusted(dt, its, published_total, published_gst, published_subtotal, supplier_name) ==
    IF ~published_total.ok \/ ~published_gst.ok \/ ~published_subtotal.ok
       \/ ~IsStr(supplier_name)
    THEN [ok |-> FALSE, data |-> dt, items |-> its]
    ELSE IF CocaColaSelected(supplier_name.s)
    THEN [ok |-> TRUE, items |-> its,
          data |-> Put(dt, "published_subtotal_excl",
                       Round(RSub(published_total.v, published_gst.v), 2))]
    ELSE IF FoodDairySelected(supplier_name.s)
    THEN IF RIsZero(published_total.v) /\ RPos(published_subtotal.v)
         THEN [ok |-> TRUE, items |-> its,
               data |-> Put(dt, "published_total_incl", Round(published_subtotal.v, 2))]
         ELSE IF RPos(published_total.v) /\ RIsZero(published_subtotal.v)
         THEN [ok |-> TRUE, items |-> its,
               data |-> Put(dt, "published_subtotal_excl", Round(published_total.v, 2))]
         ELSE [ok |-> TRUE, data |-> dt, items |-> its]
    ELSE [ok |-> TRUE, data |-> dt, items |-> its]

\* lines 582-605
adjust_published_subtotal_by_supplier(dt, its) ==
    Adjusted(dt, its,
             ToFloat(GetOr(dt, "published_total_incl", Num(0))),
             ToFloat(GetOr(dt, "published_gst_total", Num(0))),
             ToFloat(GetOr(dt, "published_subtotal_excl", Num(0))),
             GetOr(dt, "supplier_name", Str(<<>>)))

----------------------------------------------------------------------------
(* Normalizers *)

RECURSIVE IntDigits(_)
IntDigits(k) ==
    IF k < 10 THEN <<CHOOSE x \in Digits : DigitVal(x) = k>>
    ELSE Append(IntDigits(k \div 10), CHOOSE x \in Digits : DigitVal(x) = k % 10)

RECURSIVE ZeroPad(_, _)
ZeroPad(s, w) == IF Len(s) >= w THEN s ELSE ZeroPad(<<"0">> \o s, w)

\* the least k with d | 10^k, for a denominator of a terminating decimal
RECURSIVE DecPlaces(_, _)
DecPlaces(d, k) == IF Pow10N(k) % d = 0 THEN k ELSE DecPlaces(d, k + 1)

Terminating(v) == 1000000 % v.d = 0

\* str(x) of a number with a terminating decimal expansion: "12.5", "-3.0"
NumToStr(v) ==
    (IF v.n < 0 THEN <<"-">> ELSE <<>>)
    \o IntDigits(Abs(v.n) \div v.d) \o <<".">>
    \o (IF DecPlaces(v.d, 0) = 0 THEN <<"0">>
        ELSE ZeroPad(IntDigits(((Abs(v.n) % v.d) * Pow10N(DecPlaces(v.d, 0))) \div v.d),
                     DecPlaces(v.d, 0)))

\* float(str(value).replace(",", "")); the repr of a float reads back as
\* the same float, also when its decimal expansion does not terminate
FloatOfStr(value) ==
    IF IsStr(value) THEN ParseFloat(Remove(value.s, ","))
    ELSE IF IsNum(value)
    THEN IF Terminating(value) THEN ParseFloat(Remove(NumToStr(value), ","))
         ELSE Ok(value)
    ELSE Fail

\* lines 415-419 and 433-442: None and "" give 0.0, a failed conversion
\* gives 0.0
\* the except clause of lines 418-419 and 441-442
OrZero(f) == IF f.ok THEN f.v ELSE Zero

\* a conversion without the except clause: what does not parse stays
Normalized_WithoutExcept(value) ==
    IF IsNone(value) \/ (IsStr(value) /\ value.s = <<>>) THEN Zero
    ELSE IF FloatOfStr(value).ok THEN FloatOfStr(value).v
    ELSE value

Normalized(value) ==
    IF IsNone(value) \/ (IsStr(value) /\ value.s = <<>>) THEN Zero
    ELSE OrZero(FloatOfStr(value))

RECURSIVE NormalizeKeys(_, _)
NormalizeKeys(dct, keys) ==
    IF keys = <<>> THEN dct
    ELSE NormalizeKeys(Put(dct, Head(keys), Normalized(Get(dct, Head(keys)))), Tail(keys))

keys_to_normalize ==
    <<"discount_amount", "total_excl_tax", "shipping_cost", "total_tax", "rounding",
      "picking_charge", "total_amount", "published_subtotal_excl", "published_gst_total",
      "published_total_incl">>

numeric_keys ==
    <<"order_quantity", "order_unit_price_excl", "order_unit_price_incl",
      "order_unit_tax", "line_total_excl", "line_total_incl", "line_total_tax", "pack_size">>

\* lines 423-444
normalize_financial_fields(dt, its) ==
    [ok |-> TRUE, data |-> NormalizeKeys(dt, keys_to_normalize), items |-> its]

\* ' '.join(name.replace("\n", " ").split())
RECURSIVE SquashWs(_)
RECURSIVE SquashWords(_)
SquashWs(s) == SquashWords(LStrip(s, WhiteSpace))
\* index of the last character of the first word of t
WordEnd(t) == RunEnd(t, 1, {c \in {t[i] : i \in 1..Len(t)} : c \notin WhiteSpace})
JoinWords(word, rest) == word \o (IF rest = <<>> THEN <<>> ELSE <<" ">> \o rest)
SquashWords(t) ==
    IF t = <<>> THEN <<>>
    ELSE JoinWords(SubSeq(t, 1, WordEnd(t)), SquashWs(SubSeq(t, WordEnd(t) + 1, Len(t))))

\* lines 408-419: the loop; a product_name that is not a str has no
\* .replace and the exception leaves the function
RECURSIVE NormalizeLoop(_, _)
NormalizeLoop(its, k) ==
    IF k > Len(its) THEN [ok |-> TRUE, items |-> its]
    ELSE IF ~IsStr(GetOr(its[k], "product_name", Str(<<>>))) THEN [ok |-> FALSE, items |-> its]
    ELSE NormalizeLoop(
           [its EXCEPT ![k] =
              NormalizeKeys(Put(its[k], "product_name",
                                Str(SquashWs(GetOr(its[k], "product_name", Str(<<>>)).s))),
                            numeric_keys)],
           k + 1)

\* lines 400-421
normalize_line_items(dt, its) ==
    IF IterKind(dt) = "empty" THEN [ok |-> TRUE, data |-> dt, items |-> its]
    ELSE IF IterKind(dt) = "list" THEN Looped(dt, NormalizeLoop(its, 1))
    ELSE [ok |-> FALSE, data |-> dt, items |-> its]

----------------------------------------------------------------------------
(* Totals and variances *)

\* lines 620-625: the shipping cost written back for PFD Food Services
PfdShipping(shipping_cost) ==
    Round(RAdd(shipping_cost, Round(RDiv(shipping_cost, Num(10)), 2)), 2)

\* the variance with its operands swapped
Variance_ComputedMinusPublished(published, computed) == Round(RSub(computed, published), 2)

\* lines 644-647: published minus computed, at 2 decimals
Variance(published, computed) == Round(RSub(published, computed), 2)

\* line 628: shipping + picking + discount, from the values read at lines
\* 615-617
ExtraTotal(shipping_cost, picking_charge, discount_amount) ==
    RAdd(RAdd(shipping_cost, picking_charge), discount_amount)

\* a variant that adopts the computed totals as the published ones
TotalsWritten_AdoptsComputed(dt, its, total_excl_tax, total_tax, published_subtotal_excl, published_gst_total, published_total_incl) ==
    [ok |-> TRUE, items |-> its,
     data |-> PutAll(dt,
         << <<"published_subtotal_excl", Round(total_excl_tax, 2)>>,
            <<"published_gst_total", Round(total_tax, 2)>>,
            <<"published_total_incl", Round(RAdd(total_excl_tax, total_tax), 2)>>,
            <<"total_excl_tax", Round(total_excl_tax, 2)>>,
            <<"total_tax", Round(total_tax, 2)>>,
            <<"total_amount", Round(RAdd(total_excl_tax, total_tax), 2)>>,
            <<"subtotal_variance", Zero>>,
            <<"gst_variance", Zero>>,
            <<"total_variance", Zero>> >>)]

\* lines 649-655: the writes, with total_amount of line 636
TotalsWritten(dt, its, total_excl_tax, total_tax, published_subtotal_excl, published_gst_total, published_total_incl) ==
    [ok |-> TRUE, items |-> its,
     data |-> PutAll(dt,
         << <<"total_excl_tax", Round(total_excl_tax, 2)>>,
            <<"total_tax", Round(total_tax, 2)>>,
            <<"total_amount", Round(RAdd(total_excl_tax, total_tax), 2)>>,
            <<"subtotal_variance", Variance(published_subtotal_excl, total_excl_tax)>>,
            <<"gst_variance", Variance(published_gst_total, total_tax)>>,
            <<"total_variance",
              Variance(published_total_incl, RAdd(total_excl_tax, total_tax))>> >>)]

\* lines 631-655, with the outcomes of the sum of line 632 and of the
\* float() conversions of lines 639-641
TotalsTaxed(dt, its, total_excl_tax, extra_total, item_tax, published_subtotal_excl, published_gst_total, published_total_incl) ==
    IF ~item_tax.ok \/ ~published_subtotal_excl.ok \/ ~published_gst_total.ok
       \/ ~published_total_incl.ok
    THEN [ok |-> FALSE, data |-> dt, items |-> its]
    ELSE TotalsWritten(dt, its, total_excl_tax,
                       RAdd(item_tax.v, RDiv(extra_total, Num(10))),
                       published_subtotal_excl.v, published_gst_total.v,
                       published_total_incl.v)

\* lines 627-655: dt is the record after the PFD write; extra_total comes
\* from the values read on lines 615-617
TotalsExtra(dt, its, line_total_excl_tax, extra_total) ==
    TotalsTaxed(dt, its, RAdd(line_total_excl_tax, extra_total), extra_total,
                SumLines(dt, its, "line_total_tax"),
                ToFloat(GetOr(dt, "published_subtotal_excl", Num(0))),
                ToFloat(GetOr(dt, "published_gst_total", Num(0))),
                ToFloat(GetOr(dt, "published_total_incl", Num(0))))

\* lines 620-625: the record after the PFD Food Services branch
PfdWritten(dt, supplier_name, shipping_cost) ==
    IF PfdSelected(supplier_name.s) /\ RPos(shipping_cost)
    THEN Put(dt, "shipping_cost", PfdShipping(shipping_cost))
    ELSE dt

\* lines 620-655, with the outcomes of the reads of lines 612-618
TotalsRead(dt, its, line_total_excl_tax, shipping_cost, picking_charge, discount_amount, supplier_name) ==
    IF ~line_total_excl_tax.ok \/ ~shipping_cost.ok \/ ~picking_charge.ok
       \/ ~discount_amount.ok \/ ~IsStr(supplier_name)
    THEN [ok |-> FALSE, data |-> dt, items |-> its]
    ELSE TotalsExtra(PfdWritten(dt, supplier_name, shipping_cost.v), its,
                     line_total_excl_tax.v,
                     ExtraTotal(shipping_cost.v, picking_charge.v, discount_amount.v))

\* lines 608-657
recalculate_totals_and_variances(dt, its) ==
    TotalsRead(dt, its,
               SumLines(dt, its, "line_total_excl"),
               ToFloat(GetOr(dt, "shipping_cost", Num(0))),
               ToFloat(GetOr(dt, "picking_charge", Num(0))),
               ToFloat(GetOr(dt, "discount_amount", Num(0))),
               GetOr(dt, "supplier_name", Str(<<>>)))

----------------------------------------------------------------------------
(* reorder_invoice_data *)

top_level_order ==
    <<"supplier_name", "store_name", "invoice_number", "invoice_date", "due_date",
      "purchase_order", "item_count", "discount_amount", "total_excl_tax", "shipping_cost",
      "total_tax", "rounding", "picking_charge", "total_amount", "published_subtotal_excl",
      "published_gst_total", "published_total_incl", "subtotal_variance", "gst_variance",
      "total_variance", "Line_Items">>

line_item_order ==
    <<"product_name", "product_code", "order_quantity", "order_unit",
      "order_unit_price_excl", "order_unit_price_incl", "order_unit_tax",
      "order_unit_size", "pack_size", "pack_unit",
      "gst_indicator", "line_total_excl", "line_total_incl", "line_total_tax">>

\* the keys of `order` that dct holds, in the order of `order`
RECURSIVE Listed(_, _)
Listed(dct, order) ==
    IF order = <<>> THEN <<>>
    ELSE (IF Has(dct, Head(order)) THEN <<<<Head(order), Get(dct, Head(order))>>>> ELSE <<>>)
         \o Listed(dct, Tail(order))

\* lines 471-474 and 485-487: the pairs of dct whose key is not in done yet
Unlisted(dct, done) == SelectSeq(dct, LAMBDA p : ~Has(done, p[1]))

\* a reordering that appends the listed keys after the others
Reordered_UnlistedFirst(dct, order) == Unlisted(dct, Listed(dct, order)) \o Listed(dct, order)

\* lines 467-474: the listed keys first, then the others in their order
Reordered(dct, order) == Listed(dct, order) \o Unlisted(dct, Listed(dct, order))

\* a reordering that forgets to drop the transient field
ReorderItem_KeepsTransient(item) == Reordered(item, line_item_order)

\* lines 466-475: one line item
ReorderItem(item) == Reordered(Pop(item, "price/quantity"), line_item_order)

\* lines 446-489
reorder_invoice_data(dt, its) ==
    IF IterKind(dt) \in {"error", "chars"} THEN [ok |-> FALSE, data |-> dt, items |-> its]
    ELSE [ok |-> TRUE,
          items |-> [k \in 1..Len(its) |-> ReorderItem(its[k])],
          data |-> Reordered(Put(dt, "Line_Items", ListVal), top_level_order)]

----------------------------------------------------------------------------
(* The pipeline of exctract_invoice_data, lines 48-91 *)

Snapshot == [data |-> data, items |-> items]

\* the record is mutated in place: the effect of a stage on the state
Apply(r) ==
    /\ data' = r.data
    /\ items' = r.items
    /\ prev' = Snapshot
    /\ UNCHANGED input

Goto(r, next) == pc' = IF r.ok THEN next ELSE "raised"

\* one stage of the pipeline: its effect, and the next stage or the exception
Step(r, next) == Apply(r) /\ Goto(r, next)

Same(dt, its) == [ok |-> TRUE, data |-> dt, items |-> its]
Raise(dt, its) == [ok |-> FALSE, data |-> dt, items |-> its]

ExtractPackDetails ==
    /\ pc = "extract_pack_details"
    /\ Step(extract_pack_details(data, items), "add_item_count")

AddItemCount ==
    /\ pc = "add_item_count"
    /\ Step(add_item_count(data, items), "calculate_missing_fields")

CalculateMissingFields ==
    /\ pc = "calculate_missing_fields"
    /\ Step(calculate_missing_fields(data, items), "anchor_packaging")

\* lines 61-62: (data.get("supplier_name") or "").strip().casefold();
\* None, "" and 0 are falsy, another number has no .strip
AnchorKey(dt) ==
    IF IsStr(Get(dt, "supplier_name"))
    THEN [ok |-> TRUE, s |-> Lower(Strip(Get(dt, "supplier_name").s))]
    ELSE IF IsNone(Get(dt, "supplier_name"))
            \/ (IsNum(Get(dt, "supplier_name")) /\ RIsZero(Get(dt, "supplier_name")))
    THEN [ok |-> TRUE, s |-> <<>>]
    ELSE [ok |-> FALSE, s |-> <<>>]

\* line 62: supplier_name in {"tax invoice", "anchor packaging", ...}
AnchorSelected(dt) == AnchorKey(dt).ok /\ AnchorKey(dt).s \in ANCHOR_KEYS

\* lines 60-64
anchor_rule(dt, its) ==
    IF ~AnchorKey(dt).ok THEN Raise(dt, its)
    ELSE IF AnchorSelected(dt) THEN recalculate_anchor_packaging_gst(dt, its)
    ELSE Same(dt, its)

AnchorPackagingRule ==
    /\ pc = "anchor_packaging"
    /\ Step(anchor_rule(data, items), "replace_supplier_name")

\* line 68: updated_data.get('supplier_name') in lck_list
LckSelected(dt) == IsStr(Get(dt, "supplier_name")) /\ Get(dt, "supplier_name").s \in lck_list

\* lines 66-70
rename_lck(dt, its) ==
    IF LckSelected(dt)
    THEN [ok |-> TRUE, data |-> Put(dt, "supplier_name", Str(LCK_CANON)), items |-> its]
    ELSE [ok |-> TRUE, data |-> dt, items |-> its]

ReplaceSupplierName ==
    /\ pc = "replace_supplier_name"
    /\ Step(rename_lck(data, items), "pnm_reconcile")

\* line 73: supplier_name.strip().lower() == "pnm sydney pty ltd"
PnmSelected(dt) == SupplierLower(dt).ok /\ SupplierLower(dt).s = PNM_NAME

\* lines 72-75
pnm_rule(dt, its) ==
    IF ~SupplierLower(dt).ok THEN Raise(dt, its)
    ELSE IF PnmSelected(dt) THEN reconcile_published_totals(dt, its)
    ELSE Same(dt, its)

PnmReconcileRule ==
    /\ pc = "pnm_reconcile"
    /\ Step(pnm_rule(data, items), "normalize_financial_fields")

NormalizeFinancialFields ==
    /\ pc = "normalize_financial_fields"
    /\ Step(normalize_financial_fields(data, items), "normalize_line_items")

NormalizeLineItems ==
    /\ pc = "normalize_line_items"
    /\ Step(normalize_line_items(data, items), "adjust_published_subtotal")

AdjustPublishedSubtotal ==
    /\ pc = "adjust_published_subtotal"
    /\ Step(adjust_published_subtotal_by_supplier(data, items), "recalculate_totals")

RecalculateTotals ==
    /\ pc = "recalculate_totals"
    /\ Step(recalculate_totals_and_variances(data, items), "reorder")

Reorder ==
    /\ pc = "reorder"
    /\ Step(reorder_invoice_data(data, items), "done")

Next ==
    \/ ExtractPackDetails
    \/ AddItemCount
    \/ CalculateMissingFields
    \/ AnchorPackagingRule
    \/ ReplaceSupplierName
    \/ PnmReconcileRule
    \/ NormalizeFinancialFields
    \/ NormalizeLineItems
    \/ AdjustPublishedSubtotal
    \/ RecalculateTotals
    \/ Reorder

----------------------------------------------------------------------------
(* Inputs: the mapping handed over by the extraction step *)

\* a dict from the pairs whose value is present
MkDict(pairs) == SelectSeq(pairs, LAMBDA p : p[2].t # "absent")

MaxItems == 2

Item(name, qty, excl, incl, tax, pq) ==
    MkDict(<< <<"product_name", name>>, <<"order_quantity", qty>>,
              <<"line_total_excl", excl>>, <<"line_total_incl", incl>>,
              <<"line_total_tax", tax>>, <<"price/quantity", pq>> >>)

PipelineItems ==
    { Item(Str(<<"6", "X", "1", "K", "G", " ", "B", "U", "T", "T", "E", "R">>), Num(2), Num(100), Absent, Absent, Absent),
      Item(Str(<<"W", "I", "D", "G", "E", "T">>), Num(0), Str(<<"5", "0">>), Absent, Absent, Absent),
      Item(None, None, None, None, None, None),
      Item(Str(<<"M", "I", "L", "K", "\n", "5", "0", "0", "M", "L">>), Str(<<"3">>), Str(<<"$", "3", "0", ".", "0", "0">>), None, Str(<<"3", ".", "0", "0">>), Str(<<"$", "3", ".", "0", "0", " ", "/", " ", "1", "0">>)),
      Item(Str(<<"C", "U", "P", "S", " ", "3", "0", "P", "K", "X", "6">>), Absent, Str(<<"a", "b", "c">>), Num(20), Str(<<>>), Str(<<"n", "/", "a">>)),
      Item(Str(<<"1", "2", " ", "x", " ", "1", "L", "T", " ", "L", "I", "D", "S">>), Num(4), Str(<<"1", ",", "2", "0", "0", ".", "5", "0">>), Num(0), Str(<<"1", "0">>), Num(600)),
      Item(Str(<<"S", "A", "L", "T", " ", "9", "0", "0", "G", "X", "1", "0">>), None, Num(100), Absent, Str(<<"1", "0", "%">>), Absent),
      Item(Str(<<"N", "A", "P", "K", "I", "N", "S">>), Num(2), Num(0), Absent, Absent, Absent) }

PipelineSuppliers ==
    { Absent, None, Num(7),
      Str(<<"A", "n", "c", "h", "o", "r", " ", "P", "a", "c", "k", "a", "g", "i", "n", "g">>), Str(<<" ", "A", "N", "C", "H", "O", "R", " ", "P", "A", "C", "K", "A", "G", "I", "N", "G", " ">>), Str(<<"T", "a", "x", " ", "I", "n", "v", "o", "i", "c", "e">>),
      Str(<<"P", "N", "M", " ", "S", "Y", "D", "N", "E", "Y", " ", "P", "T", "Y", " ", "L", "T", "D">>), Str(<<" ", "p", "n", "m", " ", "s", "y", "d", "n", "e", "y", " ", "p", "t", "y", " ", "l", "t", "d">>),
      Str(<<"P", "l", "u", "m", " ", "S", "C", "H">>), Str(<<"p", "l", "u", "m", " ", "s", "c", "h", " ">>),
      Str(<<"C", "o", "c", "a", "-", "C", "o", "l", "a", " ", "A", "m", "a", "t", "i", "l">>), Str(<<"C", "O", "C", "A", "-", "C", "O", "L", "A", " ", "A", "M", "A", "T", "I", "L">>),
      Str(<<"P", "F", "D", " ", "F", "o", "o", "d", " ", "S", "e", "r", "v", "i", "c", "e", "s">>), Str(<<"F", "o", "o", "d", " ", "&", " ", "D", "a", "i", "r", "y", " ", "C", "o">>), Str(<<"A", "c", "m", "e">>) }

Header(sub, gst, tot, ship, pick, disc) ==
    MkDict(<< <<"published_subtotal_excl", sub>>, <<"published_gst_total", gst>>,
              <<"published_total_incl", tot>>, <<"shipping_cost", ship>>,
              <<"picking_charge", pick>>, <<"discount_amount", disc>> >>)

PipelineHeaders ==
    { Header(Absent, Absent, Absent, Absent, Absent, Absent),
      Header(Str(<<"1", ",", "2", "3", "4", ".", "5", "0">>), Str(<<"1", "0", ".", "0", "0">>), Str(<<>>), Str(<<"5", ".", "0", "0">>), None, None),
      Header(Num(100), Num(10), Num(110), Num(10), Num(0), Num(-5)),
      Header(Num(0), Num(10), Num(110), None, Str(<<>>), Absent) }

\* lists of at most n items drawn from a set
RECURSIVE Lists(_, _)
Lists(S, n) ==
    IF n = 0 THEN {<<>>}
    ELSE Lists(S, n - 1) \cup {Append(l, x) : l \in {m \in Lists(S, n - 1) : Len(m) = n - 1}, x \in S}

\* what the Line_Items key holds when it is not a list
NonLists == {Absent, None, Num(3), Str(<<>>), Str(<<"a", "b">>)}

Record(supplier, header, lineItems) ==
    MkDict(<< <<"supplier_name", supplier>> >>) \o header
        \o MkDict(<< <<"Line_Items", lineItems>> >>)

Init ==
    /\ pc = "extract_pack_details"
    /\ \E supplier \in PipelineSuppliers, header \in PipelineHeaders :
         \/ \E l \in Lists(PipelineItems, MaxItems) :
              /\ data = Record(supplier, header, ListVal)
              /\ items = l
         \/ \E v \in NonLists :
              /\ data = Record(supplier, header, v)
              /\ items = <<>>
    /\ prev = Snapshot
    /\ input = Snapshot

Spec == Init /\ [][Next]_vars

----------------------------------------------------------------------------
(* Properties of the pipeline *)

Returned == pc = "done"

\* C10: in the record returned by reorder_invoice_data, hence in the final
\* output of the pipeline, no line item holds the key price/quantity
C10_TransientFieldRemoved ==
    Returned => \A k \in 1..Len(items) : ~Has(items[k], "price/quantity")

\* a returned record with an input item that carried price/quantity and that
\* calculate_missing_fields could not process (no gst_indicator written)
C10_Witness ==
    /\ Returned
    /\ \E k \in 1..Len(items) :
         /\ Has(input.items[k], "price/quantity")
         /\ ~Has(items[k], "gst_indicator")

\* C2: the pipeline returns a record without raising, for every input whose
\* values are strings, numbers, null or absent keys
C2_NeverRaises == pc # "raised"

\* the input names one of the Anchor Packaging suppliers (lines 61-63)
AnchorInput == AnchorKey(input.data).ok /\ AnchorKey(input.data).s \in ANCHOR_KEYS

\* the flat 10% tax on one item of the returned record
FlatTax(item) ==
    /\ Get(item, "line_total_tax") = Round(RDiv(Get(item, "line_total_excl"), Num(10)), 2)
    /\ Get(item, "line_total_incl")
         = Round(RAdd(Get(item, "line_total_excl"), Get(item, "line_total_tax")), 2)
    /\ Get(item, "gst_indicator") = Str(GST)

\* C6: for an Anchor Packaging supplier the returned record carries the
\* canonical supplier name and every line item, whatever its order_quantity,
\* has a tax of 10% of its excl total, incl = excl + tax and the indicator GST
C6_AnchorFlatTax ==
    (Returned /\ AnchorInput) =>
        /\ Get(data, "supplier_name") = Str(ANCHOR_CANON)
        /\ \A k \in 1..Len(items) : FlatTax(items[k])

\* the example of the claim: excl 100 and quantity 2 come out with tax 10,
\* incl 110, unit excl 50 and unit tax 5
C6_Example ==
    /\ Returned /\ AnchorInput
    /\ \E k \in 1..Len(items) :
         /\ Get(input.items[k], "line_total_excl") = Num(100)
         /\ Get(input.items[k], "order_quantity") = Num(2)
         /\ Get(items[k], "line_total_tax") = Num(10)
         /\ Get(items[k], "line_total_incl") = Num(110)
         /\ Get(items[k], "order_unit_price_excl") = Num(50)
         /\ Get(items[k], "order_unit_tax") = Num(5)

----------------------------------------------------------------------------
(* calculate_missing_fields called on its own *)

CalcExcl == {Num(0), Num(100), Num(-100), Str(<<"a", "b", "c">>)}
CalcIncl == {Absent, Num(110)}
CalcTax == {None, Str(<<"1", "0", "%">>), Str(<<"$", "5">>)}

CalcItems ==
    { Item(Str(<<"A">>), Num(2), excl, incl, tax, Absent) :
        excl \in CalcExcl, incl \in CalcIncl, tax \in CalcTax }
    \cup
    { Item(Str(<<"B">>), Num(0), Num(100), Num(0), Str(<<"1", "0">>), Absent),
      Item(Str(<<"C">>), Str(<<"3">>), Str(<<"$", "3", "0", ".", "0", "0">>), None,
           Str(<<"3", ".", "0", "0">>),
           Str(<<"$", "3", "7", ".", "9", "0", " ", "/", " ", "1", "0", "0", "0">>)),
      Item(Str(<<"D">>), Num(3), Num(30), None, Str(<<"x">>), Num(5)),
      Item(Str(<<"E">>), Num(1), Num(100), Num(110), Str(<<>>), Absent),
      Item(Str(<<"F">>), Num(2), Str(<<"$", "1", ",", "2", "3", "4", ".", "5", "0">>), Absent, None,
           Absent),
      Item(Str(<<"G">>), Num(2), Str(<<>>), Num(110), None, Absent),
      Item(Str(<<"H">>), Str(<<>>), Num(100), Str(<<>>), None, Absent),
      Item(Str(<<"I">>), None, Str(<<"1", ",", "2", "5", "6", ".", "0", "2">>), None, None, Absent),
      Item(Str(<<"J">>), Num(1), Num(100), Num(110), Str(<<"0", "%">>), Absent),
      Item(Str(<<"K">>), Num(1), Num(100), Absent, Str(<<"1", "0">>), Absent),
      Item(Str(<<"L">>), Num(1), Num(100), Absent, Str(<<"1", "0", ".", "0">>), Absent),
      Item(Str(<<"M">>), Num(1), Num(50), Absent, Str(<<"1", "0">>), Absent),
      Item(Str(<<"N">>), Num(1), Num(50), Absent, Str(<<"1", "0", ".", "0">>), Absent),
      Item(Str(<<"O">>), Num(1), Num(100), Num(110), Rat(1221, 100), Absent),
      Item(Str(<<"P">>), Num(1), Num(100), Absent, Num(10), Absent),
      Item(Str(<<"Q">>), Num(2), Num(0), Num(110), Num(10), Absent) }

CalcSuppliers ==
    { Str(<<"A", "c", "m", "e">>),
      Str(<<"P", "N", "M", " ", "S", "Y", "D", "N", "E", "Y", " ", "P", "T", "Y", " ", "L", "T", "D">>) }

CalcInit ==
    /\ pc = "call_calculate_missing_fields"
    /\ \E supplier \in CalcSuppliers, l \in Lists(CalcItems, MaxItems) :
         /\ data = Record(supplier, <<>>, ListVal)
         /\ items = l
    /\ prev = Snapshot
    /\ input = Snapshot

CallCalculateMissingFields ==
    /\ pc = "call_calculate_missing_fields"
    /\ Step(calculate_missing_fields(data, items), "calculate_missing_fields_returned")

SpecCalc == CalcInit /\ [][CallCalculateMissingFields]_vars

CalcReturned == pc = "calculate_missing_fields_returned"

\* |a - b| < 1e-6
Within(a, b) ==
    /\ RLt(RSub(a, b), Rat(1, 1000000))
    /\ RLt(RSub(b, a), Rat(1, 1000000))

\* C1: every line item that calculate_missing_fields processes without an
\* exception satisfies line_total_incl = line_total_excl + line_total_tax
\* within rounding when the function returns, zero and negative amounts
\* included
C1_InclIsExclPlusTax ==
    CalcReturned =>
        \A k \in 1..Len(items) :
            ProcessItem(input.data, input.items[k]).ok =>
                Within(Get(items[k], "line_total_incl"),
                       RAdd(Get(items[k], "line_total_excl"), Get(items[k], "line_total_tax")))

\* an item with positive amounts, for which the relation does hold
C1_PositiveCase ==
    /\ CalcReturned
    /\ \E k \in 1..Len(items) :
         /\ Get(input.items[k], "line_total_excl") = Num(100)
         /\ Get(input.items[k], "line_total_tax") = Str(<<"$", "5">>)
         /\ Get(items[k], "line_total_incl") = Num(105)

\* seq without its element i
RemoveAt(seq, i) == SubSeq(seq, 1, i - 1) \o SubSeq(seq, i + 1, Len(seq))

\* C8: an exception in one line item does not leave calculate_missing_fields,
\* and every later item ends up as it does when the failing item is not in
\* the list
C8_FailureIsolated ==
    pc # "call_calculate_missing_fields" =>
        \A i \in 1..Len(input.items) :
            ~ProcessItem(input.data, input.items[i]).ok =>
                /\ CalcReturned
                /\ \A j \in (i + 1)..Len(items) :
                     items[j] = calculate_missing_fields(
                                    input.data, RemoveAt(input.items, i)).items[j - 1]

\* a failing item followed by an item that was processed
C8_Witness ==
    /\ CalcReturned
    /\ Len(items) >= 2
    /\ ~ProcessItem(input.data, input.items[1]).ok
    /\ ProcessItem(input.data, input.items[2]).ok
    /\ Has(items[2], "gst_indicator")

----------------------------------------------------------------------------
(* extract_pack_details called on its own *)

PackNames ==
    { Str(<<"W", "I", "D", "G", "E", "T">>),
      Str(<<"6", "X", "1", "K", "G", " ", "B", "U", "T", "T", "E", "R">>),
      Str(<<"1", ".", "5", "P", "K", "X", "6">>),
      Str(<<"m", "i", "l", "k", " ", "5", "0", "0", "m", "l">>),
      Absent }

PackPriceQuantities ==
    { Absent, None, Num(5), Str(<<"1", "2">>),
      Str(<<"$", "3", "7", ".", "9", "0", " ", "/", " ", "1", "0", "0", "0">>) }

PackItems ==
    { MkDict(<< <<"product_name", name>>, <<"price/quantity", pq>> >>) :
        name \in PackNames, pq \in PackPriceQuantities }

PackSuppliers ==
    { Str(<<"A", "c", "m", "e">>),
      Str(<<"P", "N", "M", " ", "S", "Y", "D", "N", "E", "Y", " ", "P", "T", "Y", " ", "L", "T", "D">>),
      Str(<<" ", "p", "n", "m", " ", "s", "y", "d", "n", "e", "y", " ", "p", "t", "y", " ", "l", "t", "d">>) }

PackInit ==
    /\ pc = "call_extract_pack_details"
    /\ \E supplier \in PackSuppliers, l \in Lists(PackItems, MaxItems) :
         /\ data = Record(supplier, <<>>, ListVal)
         /\ items = l
    /\ prev = Snapshot
    /\ input = Snapshot

CallExtractPackDetails ==
    /\ pc = "call_extract_pack_details"
    /\ Step(extract_pack_details(data, items), "extract_pack_details_returned")

SpecPack == PackInit /\ [][CallExtractPackDetails]_vars

PackReturned == pc = "extract_pack_details_returned"

PackKeys == {"order_unit_size", "pack_size", "pack_unit"}

\* nothing can be derived: no pattern matches the name or, for PNM, the
\* price/quantity field is no string with one '/'
Underivable(dt, item) ==
    IF SupplierLower(dt).s = PNM_NAME
    THEN ~(/\ IsStr(Get(item, "price/quantity"))
           /\ SlashIndex(Remove(Remove(Get(item, "price/quantity").s, "$"), " ")) # 0)
    ELSE ~FirstMatch(GetOr(item, "product_name", Str(<<>>)).s, 1).found

\* C5: after extract_pack_details returns, every line item of every
\* supplier holds order_unit_size, pack_size and pack_unit with non-null
\* values, and they are 1, 1.0 and 'EA' when nothing could be derived
C5_PackFieldsPopulated ==
    PackReturned =>
        \A k \in 1..Len(items) :
            /\ \A key \in PackKeys : Has(items[k], key) /\ ~IsNone(Get(items[k], key))
            /\ Underivable(input.data, input.items[k]) =>
                 /\ Get(items[k], "order_unit_size") = Num(1)
                 /\ Get(items[k], "pack_size") = Num(1)
                 /\ Get(items[k], "pack_unit") = Str(EA)

\* the example of the claim: WIDGET under a supplier other than PNM gets
\* the defaults
C5_DefaultCase ==
    /\ PackReturned
    /\ SupplierLower(input.data).s # PNM_NAME
    /\ \E k \in 1..Len(items) :
         /\ Get(input.items[k], "product_name") = Str(<<"W", "I", "D", "G", "E", "T">>)
         /\ Get(items[k], "order_unit_size") = Num(1)
         /\ Get(items[k], "pack_size") = Num(1)
         /\ Get(items[k], "pack_unit") = Str(EA)

----------------------------------------------------------------------------
(* recalculate_totals_and_variances called on its own *)

LineTotals(excl, tax) == MkDict(<< <<"line_total_excl", excl>>, <<"line_total_tax", tax>> >>)

TotalsItems ==
    { LineTotals(Num(900), Num(95)),
      LineTotals(Num(100), Num(10)),
      LineTotals(Str(<<"3", "3", ".", "3", "3", "5">>), Str(<<"3", ".", "3", "3", "3", "5">>)),
      LineTotals(Str(<<"a", "b", "c">>), Num(1)) }

TotalsSuppliers ==
    { Str(<<"A", "c", "m", "e">>),
      Str(<<"P", "F", "D", " ", "F", "o", "o", "d", " ", "S", "e", "r", "v", "i", "c", "e", "s">>),
      Str(<<"P", "F", "D", " ", "F", "o", "o", "d", " ", "S", "e", "r", "v", "i", "c", "e", "s",
            " ", "N", "S", "W">>) }

TotalsHeaders ==
    { Header(sub, Num(10), tot, ship, pick, disc) :
        sub \in {Absent, Num(100)},
        tot \in {Num(110), Num(1000), Str(<<"9", "9", "0", ".", "0", "0", "4">>)},
        ship \in {Absent, Num(0), Num(10)},
        pick \in {Absent, Num(2)},
        disc \in {Absent, Num(-5)} }

TotalsInit ==
    /\ pc = "call_recalculate_totals"
    /\ \E supplier \in TotalsSuppliers, header \in TotalsHeaders,
          l \in Lists(TotalsItems, MaxItems) :
         /\ data = Record(supplier, header, ListVal)
         /\ items = l
    /\ prev = Snapshot
    /\ input = Snapshot

CallRecalculateTotals ==
    /\ pc = "call_recalculate_totals"
    /\ Step(recalculate_totals_and_variances(data, items), "recalculate_totals_returned")

SpecTotals == TotalsInit /\ [][CallRecalculateTotals]_vars

TotalsReturned == pc = "recalculate_totals_returned"

\* float(dct.get(key, 0)) of a record whose value converts
Amount(dct, key) == ToFloat(GetOr(dct, key, Num(0))).v

\* shipping_cost + picking_charge + discount_amount as the record dct holds them
Extras(dct) ==
    RAdd(RAdd(Amount(dct, "shipping_cost"), Amount(dct, "picking_charge")),
         Amount(dct, "discount_amount"))

\* C3: after recalculate_totals_and_variances returns, total_excl_tax is, at
\* 2 decimals, the sum of line_total_excl over Line_Items plus the
\* shipping_cost, picking_charge and discount_amount of the returned record,
\* for every supplier, PFD Food Services with a positive shipping cost included
C3_TotalExclFromReturnedRecord ==
    TotalsReturned =>
        Get(data, "total_excl_tax")
            = Round(RAdd(SumField(items, "line_total_excl").v, Extras(data)), 2)

\* a supplier other than PFD with a shipping cost: the relation holds
C3_OtherSupplier ==
    /\ TotalsReturned
    /\ ~HasSubstr(Get(data, "supplier_name").s, PFD)
    /\ Get(data, "shipping_cost") = Num(10)
    /\ Len(items) >= 1
    /\ Get(data, "total_excl_tax")
         = Round(RAdd(SumField(items, "line_total_excl").v, Extras(data)), 2)

\* the totals computed from the values the function was called with
ComputedExcl == RAdd(SumField(input.items, "line_total_excl").v, Extras(input.data))
ComputedTax ==
    RAdd(SumField(input.items, "line_total_tax").v, RDiv(Extras(input.data), Num(10)))
ComputedAmount == RAdd(ComputedExcl, ComputedTax)

\* variance is published - computed at 2 decimals, with the sign of that
\* difference
SignedVariance(variance, published, computed) ==
    /\ variance = Round(RSub(published, computed), 2)
    /\ RPos(variance) => RGt(published, computed)
    /\ RLt(variance, Zero) => RGt(computed, published)

\* C4: recalculate_totals_and_variances sets subtotal_variance, gst_variance
\* and total_variance to the published value minus the computed value of
\* the same pair, rounded to 2 decimals, positive when published exceeds
\* computed and negative when computed exceeds published
C4_VariancePublishedMinusComputed ==
    TotalsReturned =>
        /\ SignedVariance(Get(data, "subtotal_variance"),
                          Amount(input.data, "published_subtotal_excl"), ComputedExcl)
        /\ SignedVariance(Get(data, "gst_variance"),
                          Amount(input.data, "published_gst_total"), ComputedTax)
        /\ SignedVariance(Get(data, "total_variance"),
                          Amount(input.data, "published_total_incl"), ComputedAmount)

\* the example of the claim (published 1000, computed 995, variance 5.00)
\* in a record that also has a negative variance
C4_Witness ==
    /\ TotalsReturned
    /\ Get(data, "published_total_incl") = Num(1000)
    /\ Get(data, "total_amount") = Num(995)
    /\ Get(data, "total_variance") = Num(5)
    /\ RLt(Get(data, "subtotal_variance"), Zero)

----------------------------------------------------------------------------
(* normalize_financial_fields and normalize_line_items called on their own *)

\* null, empty and unparseable input
NormZeroValues == {Absent, None, Str(<<>>), Str(<<"a", "b", "c">>)}

\* comma-grouped, '$'-prefixed, percent-suffixed, integer and decimal input
NormOtherValues ==
    { Str(<<"1", ",", "2", "3", "4", ".", "5", "0">>),
      Str(<<"$", "1", "2", ".", "3", "0">>),
      Str(<<"1", "0", "%">>),
      Num(5), Rat(25, 2), Str(<<"-", "7", ".", "2", "5">>) }

NormValues == NormZeroValues \cup NormOtherValues

NormItems ==
    { MkDict(<< <<"product_name", Str(<<" ", "A", " ", " ", "B", "\n", "C">>)>>,
                <<"order_quantity", v>> >>) : v \in NormValues }
    \cup { MkDict(<< <<"pack_size", Num(5)>>, <<"line_total_excl", Str(<<"1", "0", "%">>)>> >>) }

NormInit ==
    /\ pc = "call_normalize_financial_fields"
    /\ \E a \in NormValues, b \in {Absent, Str(<<"$", "1", "2", ".", "3", "0">>), Num(5)},
          l \in Lists(NormItems, MaxItems) :
         /\ data = Record(Str(<<"A", "c", "m", "e">>),
                          MkDict(<< <<"total_amount", a>>, <<"rounding", b>> >>), ListVal)
         /\ items = l
    /\ prev = Snapshot
    /\ input = Snapshot

CallNormalizeFinancialFields ==
    /\ pc = "call_normalize_financial_fields"
    /\ Step(normalize_financial_fields(data, items), "call_normalize_line_items")

CallNormalizeLineItems ==
    /\ pc = "call_normalize_line_items"
    /\ Step(normalize_line_items(data, items), "normalized")

NormNext == CallNormalizeFinancialFields \/ CallNormalizeLineItems

SpecNormalize == NormInit /\ [][NormNext]_vars

\* the key of dct holds a number, 0.0 when the input was null, empty or
\* unparseable
NormalKey(dct, before, key) ==
    /\ Has(dct, key)
    /\ IsNum(Get(dct, key))
    /\ Get(before, key) \in NormZeroValues => Get(dct, key) = Zero

\* C7: normalize_financial_fields and normalize_line_items never raise, and
\* every listed numeric key ends up holding a number, which is 0.0 for null,
\* empty and unparseable input
C7_NormalizersTotal ==
    /\ pc # "raised"
    /\ pc # "call_normalize_financial_fields" =>
         \A i \in 1..Len(keys_to_normalize) :
             NormalKey(data, input.data, keys_to_normalize[i])
    /\ pc = "normalized" =>
         \A k \in 1..Len(items), i \in 1..Len(numeric_keys) :
             NormalKey(items[k], input.items[k], numeric_keys[i])

\* both normalizers have run on a record with an unparseable total_amount and
\* with a comma-grouped and a percent-suffixed line-item value
C7_Witness ==
    /\ pc = "normalized"
    /\ Get(input.data, "total_amount") = Str(<<"a", "b", "c">>)
    /\ Get(data, "total_amount") = Zero
    /\ \E k \in 1..Len(items) :
         /\ Get(input.items[k], "order_quantity") = Str(<<"1", ",", "2", "3", "4", ".", "5", "0">>)
         /\ Get(items[k], "order_quantity") = Rat(2469, 2)
    /\ \E k \in 1..Len(items) :
         /\ Get(input.items[k], "line_total_excl") = Str(<<"1", "0", "%">>)
         /\ Get(items[k], "line_total_excl") = Zero

----------------------------------------------------------------------------
(* reconcile_published_totals called twice in succession *)

ReconcileItems ==
    { MkDict(<< <<"line_total_excl", Num(100)>>, <<"line_total_tax", Num(10)>>,
                <<"line_total_incl", Num(110)>> >>),
      MkDict(<< <<"line_total_excl", Rat(33333, 1000)>>, <<"line_total_tax", Rat(33337, 10000)>>,
                <<"line_total_incl", Rat(366667, 10000)>> >>),
      MkDict(<< <<"line_total_excl", Num(-20)>>, <<"line_total_incl", Num(-20)>> >>) }

ReconcileHeaders ==
    { Header(sub, gst, tot, Absent, Absent, Absent) :
        sub \in {Absent, Num(100), Rat(13333, 100)},
        gst \in {Absent, Num(10), Str(<<"1", "3", ".", "3", "3">>)},
        tot \in {Num(0), Num(110), Rat(14667, 100), Rat(110004, 1000)} }

ReconcileInit ==
    /\ pc = "call_reconcile_published_totals"
    /\ \E header \in ReconcileHeaders, l \in Lists(ReconcileItems, MaxItems) :
         /\ data = Record(Str(PNM_NAME), header, ListVal)
         /\ items = l
    /\ prev = Snapshot
    /\ input = Snapshot

ReconcileOnce ==
    /\ pc = "call_reconcile_published_totals"
    /\ Step(reconcile_published_totals(data, items), "reconciled_once")

ReconcileAgain ==
    /\ pc = "reconciled_once"
    /\ Step(reconcile_published_totals(data, items), "reconciled_twice")

ReconcileNext == ReconcileOnce \/ ReconcileAgain

SpecReconcile == ReconcileInit /\ [][ReconcileNext]_vars

\* the published total is the 2-decimal sum of the line-item field
PublishedIsSum(published, field) ==
    Get(data, published) = Round(SumField(input.items, field).v, 2)

\* C9: after one application of reconcile_published_totals each published
\* total equals the 2-decimal sum of the corresponding line-item field, and
\* a second application leaves the record as the first one left it
C9_ReconcileIdempotent ==
    /\ pc \in {"reconciled_once", "reconciled_twice"} =>
         /\ PublishedIsSum("published_subtotal_excl", "line_total_excl")
         /\ PublishedIsSum("published_gst_total", "line_total_tax")
         /\ PublishedIsSum("published_total_incl", "line_total_incl")
    /\ pc = "reconciled_twice" => data = prev.data /\ items = prev.items

\* two applications on a record whose published total differed from the sum
\* of its line items
C9_Witness ==
    /\ pc = "reconciled_twice"
    /\ Len(items) >= 1
    /\ Get(input.data, "published_total_incl") = Num(110)
    /\ Get(data, "published_total_incl") # Num(110)

----------------------------------------------------------------------------
(* reorder_invoice_data called on its own *)

ReorderHeaders ==
    { << <<"total_amount", Num(110)>>, <<"abn", Str(<<"1">>)>>,
         <<"supplier_name", Str(<<"A", "c", "m", "e">>)>>, <<"Line_Items", ListVal>>,
         <<"notes", None>>, <<"invoice_number", Str(<<"7">>)>> >>,
      << <<"Line_Items", ListVal>>, <<"total_variance", Num(0)>>, <<"item_count", Num(1)>>,
         <<"price/quantity", Str(<<"x">>)>>, <<"store_name", None>> >>,
      << <<"supplier_name", Str(<<"A", "c", "m", "e">>)>>, <<"item_count", Num(0)>>,
         <<"Line_Items", ListVal>> >> }

\* a record without the Line_Items key
ReorderBare ==
    << <<"notes", Str(<<"n">>)>>, <<"total_tax", Num(1)>>, <<"due_date", None>> >>

ReorderItems ==
    { << <<"line_total_tax", Num(1)>>, <<"barcode", Str(<<"9">>)>>,
         <<"price/quantity", Str(<<"$", "1", "/", "2">>)>>, <<"product_name", Str(<<"A">>)>> >>,
      << <<"price/quantity", None>>, <<"product_code", Str(<<"c">>)>>,
         <<"product_name", Str(<<"B">>)>> >>,
      << <<"gst_indicator", Str(GST)>>, <<"sku", Num(5)>>, <<"order_quantity", Num(2)>>,
         <<"barcode", None>> >>,
      << >>,
      << <<"product_name", Str(<<"C">>)>>, <<"order_unit", Str(EA)>>,
         <<"line_total_excl", Num(3)>> >> }

ReorderInit ==
    /\ pc = "call_reorder_invoice_data"
    /\ \/ \E header \in ReorderHeaders, l \in Lists(ReorderItems, MaxItems) :
            data = header /\ items = l
       \/ data = ReorderBare /\ items = <<>>
    /\ prev = Snapshot
    /\ input = Snapshot

CallReorderInvoiceData ==
    /\ pc = "call_reorder_invoice_data"
    /\ Step(reorder_invoice_data(data, items), "reorder_invoice_data_returned")

SpecReorder == ReorderInit /\ [][CallReorderInvoiceData]_vars

ReorderReturned == pc = "reorder_invoice_data_returned"

InOrder(order, key) == \E i \in 1..Len(order) : order[i] = key
PlaceIn(order, key) == CHOOSE i \in 1..Len(order) : order[i] = key

\* every key of `before` outside `dropped` is a key of `after`, with its value
Preserved(before, after, dropped) ==
    \A i \in 1..Len(before) :
        before[i][1] \notin dropped =>
            /\ Has(after, before[i][1])
            /\ Get(after, before[i][1]) = before[i][2]

\* the keys of `order` come first and in the order of `order`
CanonicalFirst(dct, order) ==
    \A i, j \in 1..Len(dct) :
        i < j =>
            /\ (InOrder(order, dct[i][1]) /\ InOrder(order, dct[j][1]))
                   => PlaceIn(order, dct[i][1]) < PlaceIn(order, dct[j][1])
            /\ ~InOrder(order, dct[i][1]) => ~InOrder(order, dct[j][1])

\* C11: reorder_invoice_data keeps every top-level key and every line-item
\* key other than price/quantity with its value, puts the keys of the
\* canonical list first and in the list's order, and every other key after
\* them
C11_ReorderLosesNothing ==
    ReorderReturned =>
        /\ Preserved(prev.data, data, {})
        /\ CanonicalFirst(data, top_level_order)
        /\ Len(items) = Len(prev.items)
        /\ \A k \in 1..Len(items) :
             /\ Preserved(prev.items[k], items[k], {"price/quantity"})
             /\ CanonicalFirst(items[k], line_item_order)

\* a record and a line item that held an unlisted key before a listed one,
\* the item also holding price/quantity
C11_Witness ==
    /\ ReorderReturned
    /\ prev.data[1][1] = "total_amount"
    /\ data[1][1] = "supplier_name"
    /\ data[Len(data)][1] = "notes"
    /\ \E k \in 1..Len(items) :
         /\ Has(prev.items[k], "price/quantity")
         /\ prev.items[k][2][1] = "barcode"
         /\ items[k][Len(items[k])][1] = "barcode"
         /\ items[k][1][1] = "product_name"

----------------------------------------------------------------------------
(* Properties of the pipeline: the item count *)

\* the stages after add_item_count, and the return
AfterCount ==
    {"calculate_missing_fields", "anchor_packaging", "replace_supplier_name",
     "pnm_reconcile", "normalize_financial_fields", "normalize_line_items",
     "adjust_published_subtotal", "recalculate_totals", "reorder", "done"}

\* len(data.get("Line_Items", []))
LineItemCount(dt, its) ==
    IF IterKind(dt) = "chars" THEN Len(Get(dt, "Line_Items").s) ELSE Len(its)

\* C12: from the return of add_item_count until the pipeline returns (or
\* raises), item_count is the number of entries of Line_Items, and the line
\* items are as many as in the input
C12_ItemCountIsLength ==
    /\ pc \in AfterCount => Has(data, "item_count")
    /\ Has(data, "item_count") =>
         /\ Get(data, "item_count") = Num(LineItemCount(data, items))
         /\ Len(items) = Len(input.items)

\* a returned record with two line items, one of which every stage rewrote
C12_Witness ==
    /\ Returned
    /\ Get(data, "item_count") = Num(2)
    /\ Len(items) = 2
    /\ items[1] # input.items[1]

----------------------------------------------------------------------------
(* extract_pack_details on product names that several patterns match *)

PrecedenceNames ==
    { Str(<<"6", "X", "1", "K", "G", " ", "B", "U", "T", "T", "E", "R">>),
      Str(<<"8", "5", "X", "1", "6", "0", "G", "M">>),
      Str(<<"1", "2", " ", "x", " ", "1", "L", "T", " ", "L", "I", "D", "S">>),
      Str(<<"3", "0", "P", "K", "X", "6">>),
      Str(<<"1", ".", "5", "K", "X", "8">>),
      Str(<<"6", "0", "0", " ", "P", "E", "T", " ", "X", "2", "4">>),
      Str(<<"8", "X", "1", " ", "2", "K", "G">>),
      Str(<<"9", "0", "0", "G", "X", "1", "0", " ", "R", "I", "C", "E">>),
      Str(<<"4", "0", "0", "0", " ", "C", "U", "P", "S">>),
      Str(<<"W", "I", "D", "G", "E", "T">>),
      Str(<<"1", ".", "5", "P", "K", "X", "6">>) }

PrecedenceItems == { MkDict(<< <<"product_name", name>> >>) : name \in PrecedenceNames }

PrecedenceSuppliers == { Absent, Str(<<"A", "c", "m", "e">>) }

PrecedenceInit ==
    /\ pc = "call_extract_pack_details"
    /\ \E supplier \in PrecedenceSuppliers, l \in Lists(PrecedenceItems, MaxItems) :
         /\ data = Record(supplier, <<>>, ListVal)
         /\ items = l
    /\ prev = Snapshot
    /\ input = Snapshot

SpecPrecedence == PrecedenceInit /\ [][CallExtractPackDetails]_vars

\* the places in pack_patterns of the patterns that match the name
Matching(name) ==
    {k \in 1..Len(pack_patterns) : ReSearch(pack_patterns[k].re, name).ok}

\* the least of a non-empty set of places
Least(S) == CHOOSE k \in S : \A j \in S : k <= j

\* the descriptor of pattern k on the name
DescriptorOf(k, name) == PackOf(pack_patterns[k].type, ReSearch(pack_patterns[k].re, name))

\* the conversion of the groups of pattern k on the name raises
DescriptorRaises(k, name) ==
    PackRaises(pack_patterns[k].type, ReSearch(pack_patterns[k].re, name))

\* the three pack fields of an item
PackFields(item) ==
    Pack(Get(item, "order_unit_size"), Get(item, "pack_size"), Get(item, "pack_unit").s)

\* item k of the input is reached: no earlier item raises
Reached(k) ==
    \A j \in 1..(k - 1) :
        LET n == Get(input.items[j], "product_name").s
        IN  Matching(n) # {} => ~DescriptorRaises(Least(Matching(n)), n)

\* C13: for a supplier other than PNM, a line item whose name some pattern
\* matches gets the pack descriptor of the first such pattern of the list,
\* whichever later patterns match too: '6X1KG BUTTER' gets 6, 1.0, 'KG'. The
\* only other outcome is an exception from the groups of that first pattern.
C13_FirstPatternWins ==
    pc # "call_extract_pack_details" =>
        \A k \in 1..Len(items) :
            LET n == Get(input.items[k], "product_name").s
            IN  (Reached(k) /\ Matching(n) # {}) =>
                    IF DescriptorRaises(Least(Matching(n)), n)
                    THEN pc = "raised"
                    ELSE /\ PackFields(items[k]) = DescriptorOf(Least(Matching(n)), n)
                         /\ n = <<"6", "X", "1", "K", "G", " ", "B", "U", "T", "T", "E", "R">>
                              => PackFields(items[k]) = Pack(Num(6), Num(1), KG)

\* '6X1KG BUTTER', which four patterns match, and '8X1 2KG', whose first
\* pattern of the list matches later in the name than another one
C13_Witness ==
    /\ PackReturned
    /\ Len(items) = 2
    /\ Cardinality(Matching(Get(input.items[1], "product_name").s)) >= 4
    /\ PackFields(items[1]) = Pack(Num(6), Num(1), KG)
    /\ Get(input.items[2], "product_name").s = <<"8", "X", "1", " ", "2", "K", "G">>
    /\ PackFields(items[2]) = Pack(Num(1), Num(2), KG)

----------------------------------------------------------------------------
(* Properties of the pipeline: the unit fields *)

\* |a - b| <= 0.0001, the precision of round(x, 4)
Within4(a, b) ==
    /\ ~RGt(RSub(a, b), Rat(1, 10000))
    /\ ~RGt(RSub(b, a), Rat(1, 10000))

\* the unit fields of one item of the returned record agree with its line
\* totals and its order_quantity
UnitFieldsConsistent(item) ==
    /\ Within4(Get(item, "order_unit_price_incl"),
               RAdd(Get(item, "order_unit_price_excl"), Get(item, "order_unit_tax")))
    /\ IF RIsZero(Get(item, "order_quantity"))
       THEN /\ RIsZero(Get(item, "order_unit_price_excl"))
            /\ RIsZero(Get(item, "order_unit_tax"))
       ELSE /\ Within4(Get(item, "order_unit_price_excl"),
                       RDiv(Get(item, "line_total_excl"), Get(item, "order_quantity")))
            /\ Within4(Get(item, "order_unit_tax"),
                       RDiv(Get(item, "line_total_tax"), Get(item, "order_quantity")))

\* C14: in the returned record, every line item that calculate_missing_fields
\* processed without an exception has order_unit_price_incl =
\* order_unit_price_excl + order_unit_tax and each unit field = its line total
\* / order_quantity, 0 when the order_quantity is 0, also when the input
\* order_quantity was absent or null
C14_UnitFieldsFromQuantity ==
    Returned =>
        \A k \in 1..Len(items) :
            ProcessItem(input.data, input.items[k]).ok => UnitFieldsConsistent(items[k])

\* an item with a given order_quantity, for which the relations do hold
C14_GivenQuantity ==
    /\ Returned
    /\ \E k \in 1..Len(items) :
         /\ Get(input.items[k], "order_quantity") = Num(2)
         /\ Get(items[k], "order_quantity") = Num(2)
         /\ Get(items[k], "order_unit_price_excl") = Num(50)
         /\ UnitFieldsConsistent(items[k])

----------------------------------------------------------------------------
(* Properties of the pipeline: the selection of the supplier rules *)

RuleNames == {"anchor_packaging_gst", "lck_alias", "pnm_reconcile", "coca_cola_subtotal",
              "food_dairy_subtotal", "pfd_shipping"}

\* the record as the later rules see it: line 493 and line 70 rewrite the name
AfterAnchor(dt) == IF AnchorSelected(dt) THEN Put(dt, "supplier_name", Str(ANCHOR_CANON)) ELSE dt
AfterLck(dt) ==
    IF LckSelected(AfterAnchor(dt)) THEN Put(AfterAnchor(dt), "supplier_name", Str(LCK_CANON))
    ELSE AfterAnchor(dt)

\* the pipeline applies rule r to a record that comes in as dt
Selects(r, dt) ==
    CASE r = "anchor_packaging_gst" -> AnchorSelected(dt)
      [] r = "lck_alias" -> LckSelected(AfterAnchor(dt))
      [] r = "pnm_reconcile" -> PnmSelected(AfterLck(dt))
      [] r = "coca_cola_subtotal" -> CocaColaSelected(Get(AfterLck(dt), "supplier_name").s)
      [] r = "food_dairy_subtotal" -> FoodDairySelected(Get(AfterLck(dt), "supplier_name").s)
      [] OTHER -> PfdSelected(Get(AfterLck(dt), "supplier_name").s)

RulesApplied(dt) == {r \in RuleNames : Selects(r, dt)}

\* two names that differ in letter case and outer whitespace only
SameSupplier(a, b) == IsStr(a) /\ IsStr(b) /\ Lower(Strip(a.s)) = Lower(Strip(b.s))

\* C15: the record of a run that returned and the same record under any
\* supplier name that differs in letter case and leading/trailing whitespace
\* only have the same set of supplier rules applied
C15_RulesByNormalizedName ==
    Returned =>
        \A other \in PipelineSuppliers :
            SameSupplier(other, Get(input.data, "supplier_name")) =>
                RulesApplied(Put(input.data, "supplier_name", other)) = RulesApplied(input.data)

\* the rules that do follow the normalized name: ' ANCHOR PACKAGING ' is
\* taxed and renamed as 'Anchor Packaging' is
C15_AnchorVariant ==
    /\ Returned
    /\ Get(input.data, "supplier_name").s # ANCHOR_CANON
    /\ SameSupplier(Get(input.data, "supplier_name"), Str(ANCHOR_CANON))
    /\ RulesApplied(input.data) = {"anchor_packaging_gst"}
    /\ Get(data, "supplier_name") = Str(ANCHOR_CANON)

----------------------------------------------------------------------------
(* Properties of calculate_missing_fields: the tax amount *)

\* a line_total_tax that is absent, null, or a string that float() rejects
Unresolvable(tax) ==
    \/ tax.t \in {"absent", "null"}
    \/ IsStr(tax) /\ ~Contains(tax.s, "%") /\ ~Contains(tax.s, "$") /\ ~ParseFloat(tax.s).ok

\* incl - excl if both are positive, else 0
FallbackTax(excl, incl) == IF RPos(incl) /\ RPos(excl) THEN Round(RSub(incl, excl), 4) ELSE Zero

\* the item is processed when its line_total_tax is null
ProcessedWithoutTax(dt, item) == ProcessItem(dt, Put(item, "line_total_tax", None)).ok

\* C16: an item whose line_total_tax is absent, null or an unparseable
\* string (the empty string included) gets the tax amount incl - excl when
\* both are positive and 0 otherwise, and its line-total and unit fields are
\* populated
C16_UnresolvableTaxFallsBack ==
    CalcReturned =>
        \A k \in 1..Len(items) :
            (/\ Unresolvable(Get(input.items[k], "line_total_tax"))
             /\ ProcessedWithoutTax(input.data, input.items[k])) =>
                /\ Get(items[k], "line_total_tax") =
                       FallbackTax(CoerceExcl(Get(input.items[k], "line_total_excl")).v,
                                   CoerceOr(Get(input.items[k], "line_total_incl"), Zero).v)
                /\ \A key \in {"line_total_excl", "line_total_incl", "order_unit_price_excl",
                               "order_unit_tax", "order_unit_price_incl", "gst_indicator"} :
                     Has(items[k], key)

\* a null line_total_tax with excl 100 and incl 110: the tax is 10
C16_NullTax ==
    /\ CalcReturned
    /\ \E k \in 1..Len(items) :
         /\ IsNone(Get(input.items[k], "line_total_tax"))
         /\ Get(input.items[k], "line_total_excl") = Num(100)
         /\ Get(input.items[k], "line_total_incl") = Num(110)
         /\ Get(items[k], "line_total_tax") = Num(10)
         /\ Get(items[k], "gst_indicator") = Str(GST)

----------------------------------------------------------------------------
(* Properties of calculate_missing_fields: the coercions of step 1 *)

Empty(v) == IsNone(v) \/ v = Str(<<>>)

\* the amount of a string with its '$' and ',' removed
AmountOfStr(v) == ParseFloat(Remove(Remove(v.s, "$"), ","))

\* what the three fields are to become: 0 or 1 for null and '', the amount
\* for a '$'-prefixed or comma-grouped excl
Expected(item) ==
    [excl |-> IF Empty(Get(item, "line_total_excl")) THEN Zero
              ELSE IF IsStr(Get(item, "line_total_excl"))
              THEN AmountOfStr(Get(item, "line_total_excl")).v
              ELSE Get(item, "line_total_excl"),
     incl |-> IF Empty(Get(item, "line_total_incl")) THEN Zero
              ELSE Get(item, "line_total_incl"),
     qty |-> IF Empty(Get(item, "order_quantity")) THEN Num(1)
             ELSE Get(item, "order_quantity")]

\* the item with the three fields already coerced
Precoerced(item) ==
    PutAll(item, << <<"line_total_excl", Expected(item).excl>>,
                    <<"line_total_incl", Expected(item).incl>>,
                    <<"order_quantity", Expected(item).qty>> >>)

\* the fields of the item are among those the coercion is to handle
Coercible(item) ==
    /\ Has(item, "line_total_excl") /\ Has(item, "line_total_incl")
    /\ Has(item, "order_quantity")
    /\ \/ Empty(Get(item, "line_total_excl"))
       \/ IsNum(Get(item, "line_total_excl"))
       \/ IsStr(Get(item, "line_total_excl")) /\ AmountOfStr(Get(item, "line_total_excl")).ok
    /\ Empty(Get(item, "line_total_incl")) \/ IsNum(Get(item, "line_total_incl"))
    /\ Empty(Get(item, "order_quantity")) \/ IsNum(Get(item, "order_quantity"))

\* C17: null and '' are coerced to 0 for excl and incl and to 1 for the
\* quantity, and a '$'-prefixed and/or comma-grouped excl to its amount,
\* without failing the item: the item comes out as the item that holds the
\* coerced values does (its order_quantity aside, which is not written)
C17_CoercionNeverFails ==
    CalcReturned =>
        \A k \in 1..Len(items) :
            (/\ Coercible(input.items[k])
             /\ ProcessItem(input.data, Precoerced(input.items[k])).ok) =>
                Pop(items[k], "order_quantity") =
                    Pop(ProcessItem(input.data, Precoerced(input.items[k])).item,
                        "order_quantity")

\* a comma-grouped excl with a null incl and a null quantity: amount 1256.02,
\* quantity 1
C17_CommaGrouped ==
    /\ CalcReturned
    /\ \E k \in 1..Len(items) :
         /\ Get(input.items[k], "line_total_excl") =
                Str(<<"1", ",", "2", "5", "6", ".", "0", "2">>)
         /\ IsNone(Get(input.items[k], "order_quantity"))
         /\ Get(items[k], "line_total_excl") = Rat(125602, 100)
         /\ Get(items[k], "order_unit_price_excl") = Rat(125602, 100)

----------------------------------------------------------------------------
(* Properties of calculate_missing_fields: the excl/incl completion *)

\* the coerced excl and incl of the item are both positive
BothPositive(item) ==
    /\ CoerceExcl(Get(item, "line_total_excl")).ok
    /\ CoerceOr(Get(item, "line_total_incl"), Zero).ok
    /\ RPos(CoerceExcl(Get(item, "line_total_excl")).v)
    /\ RPos(CoerceOr(Get(item, "line_total_incl"), Zero).v)

\* C18: when the coerced excl and incl of a processed item are both
\* positive, line_total_excl keeps its input value and line_total_incl is
\* excl + tax, whatever the resolved tax amount, 0 included
C18_ExclAuthoritative ==
    CalcReturned =>
        \A k \in 1..Len(items) :
            (/\ ProcessItem(input.data, input.items[k]).ok
             /\ BothPositive(input.items[k])) =>
                /\ Get(items[k], "line_total_excl") =
                       CoerceExcl(Get(input.items[k], "line_total_excl")).v
                /\ Get(items[k], "line_total_incl") =
                       Round(RAdd(Get(items[k], "line_total_excl"),
                                  Get(items[k], "line_total_tax")), 4)

\* excl 100 and incl 110 with a tax of '$5': excl stays 100, incl becomes 105
C18_NonZeroTax ==
    /\ CalcReturned
    /\ \E k \in 1..Len(items) :
         /\ Get(input.items[k], "line_total_excl") = Num(100)
         /\ Get(input.items[k], "line_total_incl") = Num(110)
         /\ Get(items[k], "line_total_tax") = Num(5)
         /\ Get(items[k], "line_total_excl") = Num(100)
         /\ Get(items[k], "line_total_incl") = Num(105)

----------------------------------------------------------------------------
(* Properties of calculate_missing_fields: the classes of a string tax *)

PercentSuffixed(s) == s # <<>> /\ s[Len(s)] = "%" /\ ParseFloat(SubSeq(s, 1, Len(s) - 1)).ok
DollarPrefixed(s) == s # <<>> /\ s[1] = "$" /\ ParseFloat(Tail(s)).ok
PlainDecimal(s) == ParseFloat(s).ok /\ Contains(s, ".")
PlainWhole(s) == AllDigits(s)

\* the class of the string, 0 for a string of no class
TaxClass(s) ==
    IF PercentSuffixed(s) THEN 1
    ELSE IF DollarPrefixed(s) THEN 2
    ELSE IF PlainDecimal(s) THEN 3
    ELSE IF PlainWhole(s) THEN 4
    ELSE 0

\* the tax amount of each class
ClassTax(s, excl) ==
    CASE TaxClass(s) = 1 ->
           RDiv(RMul(excl, ParseFloat(SubSeq(s, 1, Len(s) - 1)).v), Num(100))
      [] TaxClass(s) = 2 -> ParseFloat(Tail(s)).v
      [] TaxClass(s) = 3 -> ParseFloat(s).v
      [] OTHER -> RDiv(RMul(excl, ParseFloat(s).v), Num(100))

\* every processed item with a string tax of one of the four classes holds
\* the amount of its class, rounded to 4 decimals
ResolvedByClass ==
    \A k \in 1..Len(items) :
        (/\ ProcessItem(input.data, input.items[k]).ok
         /\ IsStr(Get(input.items[k], "line_total_tax"))
         /\ TaxClass(Get(input.items[k], "line_total_tax").s) # 0) =>
            Get(items[k], "line_total_tax") =
                Round(ClassTax(Get(input.items[k], "line_total_tax").s,
                               CoerceExcl(Get(input.items[k], "line_total_excl")).v), 4)

\* items k and j are processed, with the same numeric excl, a tax of '10'
\* for k and of '10.0' for j
TenAndTenPointZero(k, j) ==
    /\ ProcessItem(input.data, input.items[k]).ok
    /\ ProcessItem(input.data, input.items[j]).ok
    /\ Get(input.items[k], "line_total_tax") = Str(<<"1", "0">>)
    /\ Get(input.items[j], "line_total_tax") = Str(<<"1", "0", ".", "0">>)
    /\ IsNum(Get(input.items[k], "line_total_excl"))
    /\ Get(input.items[j], "line_total_excl") = Get(input.items[k], "line_total_excl")

----------------------------------------------------------------------------
(* adjust_published_subtotal_by_supplier called on its own *)

AdjustSuppliers ==
    { Str(<<"C", "o", "c", "a", "-", "C", "o", "l", "a", " ", "A", "m", "a", "t", "i", "l">>),
      Str(<<"F", "o", "o", "d", " ", "&", " ", "D", "a", "i", "r", "y", " ", "C", "o">>),
      Str(<<"A", "c", "m", "e">>),
      Num(7) }

AdjustSubtotals == {Absent, Num(0), Num(95), Num(100), Num(-50), Rat(100456, 1000)}
AdjustGsts == {Absent, Num(0), Num(10)}
AdjustTotals == {Absent, Num(0), Num(110), Rat(55556, 1000)}

AdjustInit ==
    /\ pc = "call_adjust_published_subtotal"
    /\ \E supplier \in AdjustSuppliers, sub \in AdjustSubtotals, gst \in AdjustGsts,
          tot \in AdjustTotals :
         data = Record(supplier, Header(sub, gst, tot, Absent, Absent, Absent), ListVal)
    /\ items = <<>>
    /\ prev = Snapshot
    /\ input = Snapshot

CallAdjustPublishedSubtotal ==
    /\ pc = "call_adjust_published_subtotal"
    /\ Step(adjust_published_subtotal_by_supplier(data, items),
            "adjust_published_subtotal_returned")

SpecAdjust == AdjustInit /\ [][CallAdjustPublishedSubtotal]_vars

AdjustReturned == pc = "adjust_published_subtotal_returned"

\* float(data.get(key, 0)) of the record handed in
PublishedIn(key) == GetOr(input.data, key, Zero)

CocaColaInput == CocaColaSelected(Get(input.data, "supplier_name").s)
FoodDairyInput == FoodDairySelected(Get(input.data, "supplier_name").s)

\* the record comes back with this one key written, or as it was
Wrote(key, v) == data = Put(input.data, key, v)
Untouched == data = input.data

\* C20: for Coca-Cola the subtotal is set to total - gst only when it is
\* zero, and a subtotal that is present is left as it is; for Food & Dairy a
\* zero total is set from the subtotal, a zero subtotal from the total, and
\* nothing changes when both are present
C20_BackfillOnlyWhenMissing ==
    AdjustReturned =>
        /\ CocaColaInput =>
             IF RIsZero(PublishedIn("published_subtotal_excl"))
             THEN Wrote("published_subtotal_excl",
                        Round(RSub(PublishedIn("published_total_incl"),
                                   PublishedIn("published_gst_total")), 2))
             ELSE Untouched
        /\ FoodDairyInput =>
             IF /\ RIsZero(PublishedIn("published_total_incl"))
                /\ ~RIsZero(PublishedIn("published_subtotal_excl"))
             THEN Wrote("published_total_incl",
                        Round(PublishedIn("published_subtotal_excl"), 2))
             ELSE IF /\ ~RIsZero(PublishedIn("published_total_incl"))
                     /\ RIsZero(PublishedIn("published_subtotal_excl"))
             THEN Wrote("published_subtotal_excl",
                        Round(PublishedIn("published_total_incl"), 2))
             ELSE Untouched

\* C20 as amended: for Coca-Cola the subtotal is set to round(total - gst, 2)
\* whether or not a subtotal is present; for Food & Dairy a zero total is set
\* from a positive subtotal, a zero subtotal from a positive total, and
\* nothing changes otherwise; for any other supplier nothing changes
C20_CocaColaAlwaysRecomputed ==
    AdjustReturned =>
        /\ CocaColaInput =>
             Wrote("published_subtotal_excl",
                   Round(RSub(PublishedIn("published_total_incl"),
                              PublishedIn("published_gst_total")), 2))
        /\ FoodDairyInput =>
             IF /\ RIsZero(PublishedIn("published_total_incl"))
                /\ RPos(PublishedIn("published_subtotal_excl"))
             THEN Wrote("published_total_incl",
                        Round(PublishedIn("published_subtotal_excl"), 2))
             ELSE IF /\ RPos(PublishedIn("published_total_incl"))
                     /\ RIsZero(PublishedIn("published_subtotal_excl"))
             THEN Wrote("published_subtotal_excl",
                        Round(PublishedIn("published_total_incl"), 2))
             ELSE Untouched
        /\ (~CocaColaInput /\ ~FoodDairyInput) => Untouched

\* a Coca-Cola record with subtotal 95, gst 10 and total 110 comes back with
\* subtotal 100
C20_Witness ==
    /\ AdjustReturned
    /\ CocaColaInput
    /\ PublishedIn("published_subtotal_excl") = Num(95)
    /\ PublishedIn("published_total_incl") = Num(110)
    /\ PublishedIn("published_gst_total") = Num(10)
    /\ Get(data, "published_subtotal_excl") = Num(100)

----------------------------------------------------------------------------
(* Properties of the pipeline: coercion before numeric reads *)

PublishedKeys == {"published_subtotal_excl", "published_gst_total", "published_total_incl"}
ChargeKeys == {"shipping_cost", "picking_charge", "discount_amount"}

\* the fields of dct among keys are numbers already, or absent (the reads
\* default an absent key to 0)
AlreadyNumbers(dct, keys) == \A key \in keys : Has(dct, key) => IsNum(Get(dct, key))

\* the stage about to run converts header fields or line totals with float()
ReadsNumerically ==
    \/ pc = "anchor_packaging" /\ AnchorSelected(data)
    \/ pc = "pnm_reconcile" /\ PnmSelected(data)
    \/ pc = "adjust_published_subtotal"
    \/ pc = "recalculate_totals"

\* what the stage about to run converts: header fields, line totals
HeaderRead ==
    CASE pc = "pnm_reconcile" -> PublishedKeys
      [] pc = "adjust_published_subtotal" -> PublishedKeys
      [] pc = "recalculate_totals" -> PublishedKeys \cup ChargeKeys
      [] OTHER -> {}
LineTotalsRead ==
    CASE pc = "anchor_packaging" -> {"line_total_excl"}
      [] pc = "pnm_reconcile" -> {"line_total_excl", "line_total_tax", "line_total_incl"}
      [] pc = "recalculate_totals" -> {"line_total_excl", "line_total_tax"}
      [] OTHER -> {}

\* C21: whenever a stage that converts a header monetary field or a line
\* total to a number is about to run, the fields it converts have been
\* coerced to numbers by an earlier stage, so no null, empty or comma-grouped
\* value reaches a raw float()
C21_CoercionPrecedesReads ==
    ReadsNumerically =>
        /\ AlreadyNumbers(data, HeaderRead)
        /\ \A k \in 1..Len(items) : AlreadyNumbers(items[k], LineTotalsRead)

\* a record whose comma-grouped published subtotal was coerced before
\* recalculate_totals_and_variances reads it
C21_CoercedFirst ==
    /\ pc = "recalculate_totals"
    /\ IsStr(Get(input.data, "published_subtotal_excl"))
    /\ IsNum(Get(data, "published_subtotal_excl"))
    /\ AlreadyNumbers(data, HeaderRead)

----------------------------------------------------------------------------
(* The frame of recalculate_totals_and_variances *)

ComputedKeys ==
    {"total_excl_tax", "total_tax", "total_amount",
     "subtotal_variance", "gst_variance", "total_variance"}

\* the keys the call may assign for the supplier it was handed
TotalsFrame ==
    IF PfdSelected(Get(input.data, "supplier_name").s)
    THEN ComputedKeys \cup {"shipping_cost"}
    ELSE ComputedKeys

\* key is in both records with one value, or in neither
SameEntry(before, after, key) ==
    /\ Has(after, key) = Has(before, key)
    /\ Get(after, key) = Get(before, key)

\* C22: recalculate_totals_and_variances leaves published_subtotal_excl,
\* published_gst_total and published_total_incl as they were before the
\* call and leaves the line items unchanged; the only keys of the record it
\* writes are total_excl_tax, total_tax, total_amount, the three variances,
\* and shipping_cost for a PFD Food Services supplier
C22_PublishedTotalsKept ==
    TotalsReturned =>
        /\ \A key \in PublishedKeys : SameEntry(input.data, data, key)
        /\ items = input.items
        /\ \A key \in (Keys(input.data) \cup Keys(data)) \ TotalsFrame :
             SameEntry(input.data, data, key)
        /\ ComputedKeys \subseteq Keys(data)

\* a PFD record whose published subtotal differs from the computed one and
\* whose shipping cost was rewritten
C22_Witness ==
    /\ TotalsReturned
    /\ Len(items) >= 1
    /\ Get(input.data, "published_subtotal_excl") = Num(100)
    /\ Get(data, "published_subtotal_excl") = Num(100)
    /\ Get(data, "total_excl_tax") # Num(100)
    /\ Get(data, "subtotal_variance") # Zero
    /\ Get(input.data, "shipping_cost") = Num(10)
    /\ Get(data, "shipping_cost") = Num(11)

----------------------------------------------------------------------------
(* gst_indicator in the final record *)

\* the item says "GST" exactly when its unit tax is positive, "NO GST" otherwise
IndicatorAgrees(item) ==
    Get(item, "gst_indicator")
        = IF IsNum(Get(item, "order_unit_tax")) /\ RPos(Get(item, "order_unit_tax"))
          THEN Str(GST) ELSE Str(NO_GST)

\* C23: in the final record every line item that carries a gst_indicator
\* has "GST" exactly when its order_unit_tax is greater than 0 and "NO GST"
\* otherwise, for every supplier, those of the Anchor Packaging rule included
C23_IndicatorFollowsUnitTax ==
    Returned =>
        \A k \in 1..Len(items) :
            Has(items[k], "gst_indicator") => IndicatorAgrees(items[k])

\* an Anchor Packaging item with a taxable amount: unit tax 5 and "GST"
C23_AnchorTaxed ==
    /\ Returned
    /\ Get(data, "supplier_name") = Str(ANCHOR_CANON)
    /\ AnchorSelected(input.data)
    /\ \E k \in 1..Len(items) :
         /\ Get(items[k], "gst_indicator") = Str(GST)
         /\ Get(items[k], "order_unit_tax") = Num(5)
         /\ IndicatorAgrees(items[k])

----------------------------------------------------------------------------
(* Properties of calculate_missing_fields: a numeric line_total_tax *)

\* what the loop body leaves of the item when its line_total_tax key is removed
WithoutTaxField(dt, item) == ProcessItem(dt, Pop(item, "line_total_tax")).item

\* C24: when line_total_tax is a number rather than a string, its value is
\* not used: the tax amount is incl - excl if both are positive, else 0, and
\* every field of the item comes out as it does when the tax field is absent
C24_NumericTaxIgnored ==
    CalcReturned =>
        \A k \in 1..Len(items) :
            (/\ IsNum(Get(input.items[k], "line_total_tax"))
             /\ ProcessedWithoutTax(input.data, input.items[k])) =>
                /\ Get(items[k], "line_total_tax") =
                       FallbackTax(CoerceExcl(Get(input.items[k], "line_total_excl")).v,
                                   CoerceOr(Get(input.items[k], "line_total_incl"), Zero).v)
                /\ Keys(items[k]) = Keys(WithoutTaxField(input.data, input.items[k]))
                /\ \A key \in Keys(items[k]) :
                     Get(items[k], key) = Get(WithoutTaxField(input.data, input.items[k]), key)

\* a tax of 12.21 with excl 100 and incl 110 comes out as 10, and a tax of
\* 10 with excl 100 and no incl as 0
C24_Witness ==
    /\ CalcReturned
    /\ \E k \in 1..Len(items) :
         /\ Get(input.items[k], "line_total_tax") = Rat(1221, 100)
         /\ Get(input.items[k], "line_total_excl") = Num(100)
         /\ Get(input.items[k], "line_total_incl") = Num(110)
         /\ Get(items[k], "line_total_tax") = Num(10)
    /\ \E k \in 1..Len(items) :
         /\ Get(input.items[k], "line_total_tax") = Num(10)
         /\ Get(input.items[k], "line_total_excl") = Num(100)
         /\ ~Has(input.items[k], "line_total_incl")
         /\ Get(items[k], "line_total_tax") = Zero

----------------------------------------------------------------------------
(* recalculate_totals_and_variances applied twice to a normalized record *)

\* line items and headers as the two normalizers leave them: every amount a number
TwiceItems ==
    { LineTotals(Num(900), Num(95)),
      LineTotals(Num(100), Num(10)),
      LineTotals(Rat(3334, 100), Rat(333, 100)) }

TwiceHeaders ==
    { Header(sub, Num(10), tot, ship, pick, disc) :
        sub \in {Num(0), Num(100)},
        tot \in {Num(110), Num(1000)},
        ship \in {Num(0), Num(10)},
        pick \in {Num(0), Num(2)},
        disc \in {Num(0), Num(-5)} }

TwiceInit ==
    /\ pc = "call_recalculate_totals_twice"
    /\ \E supplier \in TotalsSuppliers, header \in TwiceHeaders,
          l \in Lists(TwiceItems, MaxItems) :
         /\ data = Record(supplier, header, ListVal)
         /\ items = l
    /\ prev = Snapshot
    /\ input = Snapshot

RecalculateOnce ==
    /\ pc = "call_recalculate_totals_twice"
    /\ Step(recalculate_totals_and_variances(data, items), "recalculated_once")

RecalculateAgain ==
    /\ pc = "recalculated_once"
    /\ Step(recalculate_totals_and_variances(data, items), "recalculated_twice")

TwiceNext == RecalculateOnce \/ RecalculateAgain

SpecTotalsTwice == TwiceInit /\ [][TwiceNext]_vars

RecalculatedTwice == pc = "recalculated_twice"

\* C25: for every supplier the second application of
\* recalculate_totals_and_variances leaves shipping_cost, total_excl_tax,
\* total_tax, total_amount and the three variances as the first application
\* left them
C25_RecalculationIdempotent ==
    RecalculatedTwice =>
        \A key \in ComputedKeys \cup {"shipping_cost"} : SameEntry(prev.data, data, key)

\* a supplier other than PFD with a shipping cost: the second application
\* changes nothing
C25_OtherSupplier ==
    /\ RecalculatedTwice
    /\ ~PfdSelected(Get(input.data, "supplier_name").s)
    /\ Get(input.data, "shipping_cost") = Num(10)
    /\ Len(items) >= 1
    /\ data = prev.data
    /\ data # input.data

====
